---- MODULE Spec2Model ----
(***************************************************************************)
(* Request routing and provider health of the llmio gateway.               *)
(*                                                                         *)
(*   service/chat.go      BalanceChat, BalanceChatWithExclusions,          *)
(*                        updateProviderHealthOnError/-OnSuccess           *)
(*   balancer             WeightedRandom                                   *)
(*   health check service checkAllProviders, checkProvider,                *)
(*                        performHealthCheck, GetProviderHealth            *)
(*                                                                         *)
(* Time is an abstract clock `now`; every duration of the program is       *)
(* measured in ticks of that clock.                                        *)
(***************************************************************************)
EXTENDS Integers, Sequences, FiniteSets, TLC

VARIABLES now, config, model, providers, llmproviders, health, req, nreq,
          tasks, checker, consecFail,
          probeStatus, cc, refreshers, stream, pool, pair, pure, upd

\* The state outside the router and the health checker.
rest ==
    <<probeStatus, cc, refreshers, stream, pool, pair, pure, upd>>

\* The router and the health checker, the request itself apart.
routerFrame == <<now, config, model, providers, llmproviders, health, nreq,
                 tasks, checker, consecFail>>

vars == <<now, config, model, providers, llmproviders, health, req, nreq,
          tasks, checker, consecFail, rest>>

-----------------------------------------------------------------------------
(* Bounds of the model.                                                    *)

MaxTime == 1
MaxRequests == 1
MaxScans == 1
MaxRetryBound == 2
MaxTimeOut == 1
MaxWeight == 3
MaxErrorCountBound == 2
MaxRetryAfterHours == 1
Hour == 1
MaxTTL == 1
MaxRefreshers == 2
MaxChunks == 2
MaxUpdaters == 2

\* The largest total_tokens an upstream reports in a usage member.
MaxTokens == 1

-----------------------------------------------------------------------------
(* Configuration tables: providers, the bindings of the one model.        *)

Providers == {1, 2}

Bindings == {1, 2}

Styles == {"openai", "anthropic"}

\* The providers tables a run starts from: provider 1 speaks the OpenAI
\* dialect, provider 2 either dialect.
ProviderTables ==
    {[p \in Providers |-> [Type |-> IF p = 1 THEN "openai" ELSE t]] :
        t \in Styles}

BindingProvider(b) == b

Nil == -1

Tri == {"nil", "true", "false"}

StatusOK == 200

StatusTooManyRequests == 429

\* Outcomes of one upstream attempt: 0 is a transport error or timeout
\* (chatModel.Chat returned err), otherwise the HTTP status of the response.
Outcomes == {0, 200, 201, 429, 500}

\* Outcomes of one probe of the background checker.
ProbeOutcomes == {0, 200, 429, 500}

ErrNoProvider == "no provider found for models"
ErrNoStyleProvider == "no style provider found"
ErrNoCapable == "no provider with tool_call or structured_output or image found"
ErrRetryTimeOut == "retry time out !"
ErrMaxRetry == "maximum retry attempts reached !"
ErrNoItems == "no provide items"
ErrTotalWeight == "total provide weight must be greater than 0"
ErrUnexpected == "unexpected error"
ErrCanceled == "context canceled"
ErrNotFoundModel == "not found model"
ErrNotProviderForModel == "not provider for model"
ErrSaveChatLog == "save chat log error"
ResultOK == "ok"

-----------------------------------------------------------------------------
(* Health registry: one ProviderValidation row per provider.               *)

NoRecord ==
    [exists |-> FALSE, IsHealthy |-> TRUE, ErrorCount |-> 0,
     LastValidatedAt |-> 0, NextRetryAt |-> Nil, ConsecutiveSuccesses |-> 0]

\* GetProviderHealth: a missing row reads as a healthy stub.
GetProviderHealth(h, p) ==
    IF h[p].exists THEN h[p]
    ELSE [NoRecord EXCEPT !.LastValidatedAt = now]

\* updateProviderHealthOnError, row not found: the row is created healthy
\* with ErrorCount 1; the threshold is not consulted on this path.
OnErrorCreate(t) ==
    [exists |-> TRUE, IsHealthy |-> TRUE, ErrorCount |-> 1,
     LastValidatedAt |-> t, NextRetryAt |-> Nil, ConsecutiveSuccesses |-> 0]

MarkOnError(v, cfg) == v.ErrorCount + 1 >= cfg.MaxErrorCount /\ v.IsHealthy

\* updateProviderHealthOnError, row found.
OnErrorUpdate(v, cfg, t) ==
    LET mark == MarkOnError(v, cfg)
    IN  [v EXCEPT !.ErrorCount = v.ErrorCount + 1,
                  !.LastValidatedAt = t,
                  !.ConsecutiveSuccesses = 0,
                  !.IsHealthy = IF mark THEN FALSE ELSE v.IsHealthy,
                  !.NextRetryAt = IF mark THEN t + cfg.RetryAfterHours * Hour
                                  ELSE v.NextRetryAt]

\* updateProviderHealthOnSuccess, row not found.
OnSuccessCreate(t) ==
    [exists |-> TRUE, IsHealthy |-> TRUE, ErrorCount |-> 0,
     LastValidatedAt |-> t, NextRetryAt |-> Nil, ConsecutiveSuccesses |-> 1]

\* updateProviderHealthOnSuccess, row found: ErrorCount is reset only when
\* the row was unhealthy.
OnSuccessUpdate(v, t) ==
    LET wasUnhealthy == ~v.IsHealthy
    IN  [v EXCEPT !.ConsecutiveSuccesses = v.ConsecutiveSuccesses + 1,
                  !.LastValidatedAt = t,
                  !.IsHealthy = TRUE,
                  !.ErrorCount = IF wasUnhealthy THEN 0 ELSE v.ErrorCount,
                  !.NextRetryAt = IF wasUnhealthy THEN Nil ELSE v.NextRetryAt]

\* A classifier that counts 404 as a failure.
performHealthCheckNotFoundFails(status) ==
    CASE status = 0 -> FALSE
      [] status >= 200 /\ status < 300 -> TRUE
      [] status = 401 \/ status = 403 -> TRUE
      [] status = 429 -> TRUE
      [] OTHER -> FALSE

\* performHealthCheck: classification of the probe's outcome.
performHealthCheck(status) ==
    CASE status = 0 -> FALSE
      [] status >= 200 /\ status < 300 -> TRUE
      [] status = 401 \/ status = 403 -> TRUE
      [] status = 404 -> TRUE
      [] status = 429 -> TRUE
      [] OTHER -> FALSE

\* checkProvider: the row created when none exists.
CheckerCreate(t) ==
    [exists |-> TRUE, IsHealthy |-> TRUE, ErrorCount |-> 0,
     LastValidatedAt |-> t, NextRetryAt |-> Nil, ConsecutiveSuccesses |-> 0]

\* The skip test with the comparison the wrong way round.
CheckerSkipsAfter(v, t) ==
    ~v.IsHealthy /\ v.NextRetryAt # Nil /\ t > v.NextRetryAt

\* A skip test that passes over every unhealthy provider.
CheckerSkipsUnhealthy(v, t) == ~v.IsHealthy

\* checkProvider: an unhealthy provider is skipped before its retry time.
CheckerSkips(v, t) == ~v.IsHealthy /\ v.NextRetryAt # Nil /\ t < v.NextRetryAt

\* checkProvider: the row saved after the probe.
CheckerUpdate(v, cfg, isHealthy, t) ==
    IF isHealthy
    THEN [v EXCEPT !.LastValidatedAt = t,
                   !.ConsecutiveSuccesses = v.ConsecutiveSuccesses + 1,
                   !.IsHealthy = TRUE,
                   !.ErrorCount = IF ~v.IsHealthy THEN 0 ELSE v.ErrorCount,
                   !.NextRetryAt = IF ~v.IsHealthy THEN Nil ELSE v.NextRetryAt]
    ELSE LET mark == v.ErrorCount + 1 >= cfg.MaxErrorCount
         IN  [v EXCEPT !.LastValidatedAt = t,
                       !.ErrorCount = v.ErrorCount + 1,
                       !.ConsecutiveSuccesses = 0,
                       !.IsHealthy = IF mark THEN FALSE ELSE v.IsHealthy,
                       !.NextRetryAt = IF mark
                                       THEN t + cfg.RetryAfterHours * Hour
                                       ELSE v.NextRetryAt]

-----------------------------------------------------------------------------
(* Weighted picker.                                                        *)

RECURSIVE SumOver(_, _)
SumOver(items, keys) ==
    IF keys = {} THEN 0
    ELSE LET k == CHOOSE x \in keys : TRUE
         IN  items[k] + SumOver(items, keys \ {k})

TotalWeight(items) == SumOver(items, DOMAIN items)

\* The iteration orders of a map: every sequence of its keys without repeats.
Orders(S) ==
    {o \in [1..Cardinality(S) -> S] : \A i, j \in 1..Cardinality(S) :
                                          i # j => o[i] # o[j]}

\* The two shapes of WeightedRandom's result (*T, error).
Picked(k) == [item |-> k, err |-> ""]

Failed(e) == [item |-> 0, err |-> e]

\* A second loop that compares the draw with <=.
RECURSIVE WalkInclusive(_, _, _)
WalkInclusive(items, order, r) ==
    IF order = <<>> THEN Failed(ErrUnexpected)
    ELSE LET k == Head(order)
         IN  IF r <= items[k] THEN Picked(k)
             ELSE WalkInclusive(items, Tail(order), r - items[k])

\* The second loop of WeightedRandom for a draw r and an iteration order.
RECURSIVE Walk(_, _, _)
Walk(items, order, r) ==
    IF order = <<>> THEN Failed(ErrUnexpected)
    ELSE LET k == Head(order)
         IN  IF r < items[k] THEN Picked(k)
             ELSE Walk(items, Tail(order), r - items[k])

\* A picker whose draw may equal the total weight.
WeightedRandomDrawInclusive(items) ==
    IF DOMAIN items = {} THEN {Failed(ErrNoItems)}
    ELSE IF TotalWeight(items) <= 0 THEN {Failed(ErrTotalWeight)}
    ELSE {Walk(items, o, r) : o \in Orders(DOMAIN items),
                              r \in 0..TotalWeight(items)}

\* WeightedRandom: every result some draw and some iteration order yields.
WeightedRandom(items) ==
    IF DOMAIN items = {} THEN {Failed(ErrNoItems)}
    ELSE IF TotalWeight(items) <= 0 THEN {Failed(ErrTotalWeight)}
    ELSE {Walk(items, o, r) : o \in Orders(DOMAIN items),
                              r \in 0..(TotalWeight(items) - 1)}

-----------------------------------------------------------------------------
(* Candidate selection of BalanceChatWithExclusions.                       *)

RequestFacts == [toolCall : BOOLEAN, structuredOutput : BOOLEAN, image : BOOLEAN]

providerIds == {llmproviders[b].ProviderID : b \in DOMAIN llmproviders}

\* The healthy set without the health lookup.
healthyProviderIdsUnchecked(excluded) ==
    {id \in providerIds : id \notin excluded}

healthyProviderIds(excluded) ==
    {id \in providerIds : id \notin excluded /\ GetProviderHealth(health, id).IsHealthy}

queryProviderIds(excluded) ==
    IF healthyProviderIds(excluded) = {} THEN providerIds
    ELSE healthyProviderIds(excluded)

provideritems(style, excluded) ==
    {p \in Providers : p \in queryProviderIds(excluded)
                          /\ providers[p].Type = style}

\* The capability filters reading an unset flag as a refusal.
CapabilityOKUnsetRefuses(mp, before) ==
    /\ ~(before.toolCall /\ mp.ToolCall # "true")
    /\ ~(before.structuredOutput /\ mp.StructuredOutput # "true")
    /\ ~(before.image /\ mp.Image # "true")

\* The three capability filters of the items loop.
CapabilityOK(mp, before) ==
    /\ ~(mp.ToolCall # "nil" /\ before.toolCall /\ mp.ToolCall = "false")
    /\ ~(mp.StructuredOutput # "nil" /\ before.structuredOutput
            /\ mp.StructuredOutput = "false")
    /\ ~(mp.Image # "nil" /\ before.image /\ mp.Image = "false")

BuildItems(style, before, excluded) ==
    LET keep == {b \in DOMAIN llmproviders :
                    /\ CapabilityOK(llmproviders[b], before)
                    /\ llmproviders[b].ProviderID \in provideritems(style, excluded)}
    IN  [b \in keep |-> llmproviders[b].Weight]

-----------------------------------------------------------------------------
(* The request in flight.                                                  *)

NoFacts == [toolCall |-> FALSE, structuredOutput |-> FALSE, image |-> FALSE]

EmptyItems == [b \in {} |-> 0]

\* The model name of the requests the router serves.
ModelName == "m"

\* The ProviderUsageStats row of the provider the request was answered by,
\* for today: none yet.
NoUsage ==
    [exists |-> FALSE, TotalRequests |-> 0, SuccessRequests |-> 0,
     FailedRequests |-> 0, TotalTokens |-> 0]

\* The call of ProvidersBymodelsNameWithCache of a request: not begun.
\* `states` holds the states the stored configuration has been in, each a
\* pair of the Model row and the binding list.
NoLookup ==
    [pc |-> "idle", Model |-> <<>>, Providers |-> <<>>, err |-> "",
     states |-> {}]

\* Where a request stood when its context was cancelled.
NoCancel == [pc |-> "", retry |-> 0, dispatches |-> 0]

IdleReq ==
    [pc |-> "idle", style |-> "openai", before |-> NoFacts, excluded |-> {},
     snapHealthy |-> {}, degraded |-> FALSE, items |-> EmptyItems,
     retry |-> 0, cur |-> 0, dispatches |-> 0, loopStart |-> 0,
     hardFailed |-> {}, limited |-> {}, updated |-> {}, lastStatus |-> Nil,
     result |-> "", retryErrLog |-> <<>>, chatLogs |-> <<>>,
     cancelled |-> FALSE, cancelledAt |-> NoCancel, httpStatus |-> Nil,
     name |-> ModelName, dropped |-> 0, lookup |-> NoLookup,
     usage |-> NoUsage, usageTasks |-> <<>>]

\* A launched `go updateProviderHealthOn...` that has not run yet.  The
\* launched updates form a multiset: tasks[t] counts those of shape t.
HealthTask(kind, p) == [provider |-> p, kind |-> kind]

HealthTasks == [provider : Providers, kind : {"error", "success"}]

NoTasks == [t \in HealthTasks |-> 0]

Launch(ts, t) == [ts EXCEPT ![t] = ts[t] + 1]

\* NewHealthCheckService: not running, the stop channel open.  `worker` is
\* the position of the goroutine of run, `ticker` whether the ticker's
\* channel holds a tick, `ticks` and `stops` count the ticks and the calls
\* of Stop.
IdleChecker ==
    [pc |-> "sleep", idx |-> 0, probed |-> FALSE, scans |-> 0,
     worker |-> "none", running |-> FALSE, stopped |-> FALSE,
     ticker |-> FALSE, ticks |-> 0, stops |-> 0]

\* The binding of b to its provider, as a legacy row (no capability flag set).
LegacyBinding(b, w) ==
    [ProviderID |-> BindingProvider(b), ToolCall |-> "nil",
     StructuredOutput |-> "nil", Image |-> "nil", Weight |-> w]

\* The binding table the router specification starts from: binding 1 has
\* the largest weight, binding 2 weight 1.
RouterBindings ==
    {[b \in Bindings |-> LegacyBinding(b, IF b = 1 THEN MaxWeight ELSE 1)]}

-----------------------------------------------------------------------------
(* The configuration cache.                                                *)

Refreshers == 1..MaxRefreshers

\* NewConfigCache: empty maps, refreshed "now", the refresh gate open.
NewConfigCache(ttl, t) ==
    [modelCache |-> <<>>, providerCache |-> <<>>, modelProviderCache |-> <<>>,
     lastRefreshTime |-> t, cacheTTL |-> ttl, refreshing |-> FALSE]

\* A goroutine that may run refreshCache; pc "none" until it is started.
\* `seen` is the lastRefreshTime of the snapshot whose expiry started the
\* goroutine, `checked` the one its double check looked at.
NoRefresher ==
    [pc |-> "none", result |-> "", queried |-> FALSE, seen |-> Nil,
     checked |-> Nil]

\* The cache as left alone by a run that does not exercise it.
CacheIdle ==
    /\ cc = NewConfigCache(MaxTTL, 0)
    /\ refreshers = [g \in Refreshers |-> NoRefresher]

-----------------------------------------------------------------------------
(* The response stream of the success path.                                *)

\* What one read of the upstream body yields: an ordinary line, the
\* "[DONE]" line, a line carrying an "error" member, or a line longer than
\* the scanner's buffer.
Chunks == {"data", "[DONE]", "error", "long"}

NoStream ==
    [body |-> <<>>, ending |-> "eof", pos |-> 0, cur |-> "", client |-> <<>>,
     copier |-> "idle", consumer |-> "idle", pwClosed |-> FALSE,
     pwError |-> FALSE, chunkErr |-> FALSE, err |-> FALSE,
     flushed |-> FALSE, errorBody |-> FALSE, clientGone |-> FALSE,
     updates |-> 0, tokens |-> 0, lastchunk |-> FALSE]

StreamIdle == stream = NoStream

\* The connection pool of providers/connection_pool.go, before its first
\* GetClient: NewConnectionPool leaves the map of host pools empty.  The
\* pool's durations are counted in units of five minutes on its own clock.
NoPool ==
    [ exists |-> FALSE, maxConnsPerHost |-> 0, maxIdleConns |-> 0,
      maxConns |-> 0, activeConns |-> 0, idleConns |-> <<>>, inUse |-> {},
      connInfo |-> [client \in {} |-> 0], held |-> {}, created |-> 0,
      clock |-> 0, lastCheck |-> 0, err |-> "none",
      transport |-> [client \in {} |-> 0], asked |-> 0, got |-> 0 ]

PoolIdle == pool = NoPool

\* Two requests for the same model in flight together, each between the
\* handler's entry and its return.  pair.heap holds the maps the requests
\* allocated, by address; a request keeps the address of its items map.
PairRequests == {1, 2}

NoPairRequest ==
    [pc |-> "idle", ref |-> 0, cur |-> 0, retry |-> 0, result |-> ""]

NoPair ==
    [heap |-> [a \in {} |-> 0], r |-> [r \in PairRequests |-> NoPairRequest]]

PairIdle == pair = NoPair

\* The argument and the result of a function applied on its own, outside
\* any request: nothing applied yet.
NoPure == [op |-> "", arg |-> <<>>, out |-> <<>>, done |-> FALSE]

PureIdle == pure = NoPure

\* The health updates in flight, each between its read of the provider's
\* row and its write: none.
Updaters == 1..MaxUpdaters

NoUpdater == [pc |-> "idle", kind |-> "", provider |-> 0, v |-> NoRecord]

NoUpd == [base |-> [p \in Providers |-> NoRecord],
          u |-> [u \in Updaters |-> NoUpdater]]

UpdIdle == upd = NoUpd

Init ==
    /\ now = 0
    /\ config \in [Enabled : {TRUE},
                   MaxErrorCount : 1..MaxErrorCountBound,
                   RetryAfterHours : 0..MaxRetryAfterHours]
    /\ model \in [MaxRetry : {0, MaxRetryBound}, TimeOut : 0..MaxTimeOut]
    /\ providers \in ProviderTables
    /\ llmproviders \in RouterBindings
    /\ health = [p \in Providers |-> NoRecord]
    /\ req = IdleReq
    /\ nreq = 0
    /\ tasks = NoTasks
    /\ checker = IdleChecker
    /\ consecFail = [p \in Providers |-> 0]
    /\ probeStatus = Nil
    /\ CacheIdle
    /\ StreamIdle
    /\ PoolIdle
    /\ PairIdle
    /\ PureIdle
    /\ UpdIdle

-----------------------------------------------------------------------------
(* The router.                                                             *)

\* BalanceChatWithExclusions up to the retry loop: candidate selection.
BalanceChatWithExclusions(style, before, excluded) ==
    /\ req.pc \in {"idle", "done"}
    /\ nreq < MaxRequests
    /\ nreq' = nreq + 1
    /\ LET items == BuildItems(style, before, excluded)
           base == [IdleReq EXCEPT
                      !.style = style, !.before = before,
                      !.excluded = excluded,
                      !.snapHealthy =
                          {p \in providerIds :
                              GetProviderHealth(health, p).IsHealthy},
                      !.degraded = (healthyProviderIds(excluded) = {}),
                      !.loopStart = now]
       IN  req' = IF DOMAIN llmproviders = {}
                  THEN [base EXCEPT !.pc = "done", !.result = ErrNoProvider]
                  ELSE IF provideritems(style, excluded) = {}
                  THEN [base EXCEPT !.pc = "done",
                                    !.result = ErrNoStyleProvider]
                  ELSE IF DOMAIN items = {}
                  THEN [base EXCEPT !.pc = "done", !.result = ErrNoCapable]
                  ELSE [base EXCEPT !.pc = "loop", !.items = items]
    /\ UNCHANGED <<rest, now, config, model, providers, llmproviders, health, tasks,
                   checker, consecFail>>

\* BalanceChat: the entry point of both HTTP handlers; no exclusions.  F is
\* the set of request facts the preprocessor may report.
BalanceChat(F) ==
    \E style \in Styles, before \in F :
        BalanceChatWithExclusions(style, before, {})

\* A request that needs no capability.
PlainRequest == BalanceChat({NoFacts})

\* A request with any combination of needs.
AnyRequest == BalanceChat(RequestFacts)

\* The loop condition with an off-by-one comparison.
LoopConditionInclusive(retry, maxRetry) == retry <= maxRetry

\* The condition of the retry loop.
LoopCondition(retry, maxRetry) == retry < maxRetry

\* The loop condition fails: retry has reached MaxRetry.
RetryExhausted ==
    /\ req.pc = "loop"
    /\ ~LoopCondition(req.retry, model.MaxRetry)
    /\ req' = [req EXCEPT !.pc = "done", !.result = ErrMaxRetry]
    /\ UNCHANGED <<rest, now, config, model, providers, llmproviders, health, nreq,
                   tasks, checker, consecFail>>

\* A timer armed at `armed` for d ticks has fired.
AfterReady(armed, d) == now - armed >= d

\* The select's time.After case.  The timer is armed by the select itself,
\* so it can only be ready when its duration is zero, and then whether the
\* runtime has already fired it is not determined.
RetryTimeOut ==
    /\ req.pc = "loop"
    /\ LoopCondition(req.retry, model.MaxRetry)
    /\ AfterReady(now, model.TimeOut)
    /\ req' = [req EXCEPT !.pc = "done", !.result = ErrRetryTimeOut]
    /\ UNCHANGED <<rest, now, config, model, providers, llmproviders, health, nreq,
                   tasks, checker, consecFail>>

\* A select that never finds the context done.
DoneReadyNever == FALSE

\* The select's case <-ctx.Done() is ready: the inbound request's context
\* is cancelled.
DoneReady == req.cancelled

\* The select's ctx.Done() case: the loop returns ctx.Err().
RetryCancelled ==
    /\ req.pc = "loop"
    /\ LoopCondition(req.retry, model.MaxRetry)
    /\ DoneReady
    /\ req' = [req EXCEPT !.pc = "done", !.result = ErrCanceled]
    /\ UNCHANGED <<rest, now, config, model, providers, llmproviders, health, nreq,
                   tasks, checker, consecFail>>

\* The client goes away while its request is in the retry loop: gin's
\* request context is cancelled.
Cancel ==
    /\ req.pc \in {"loop", "awaiting"}
    /\ ~req.cancelled
    /\ req' = [req EXCEPT !.cancelled = TRUE,
                          !.cancelledAt = [pc |-> req.pc, retry |-> req.retry,
                                           dispatches |-> req.dispatches]]
    /\ UNCHANGED <<rest, now, config, model, providers, llmproviders, health, nreq,
                   tasks, checker, consecFail>>

\* The select's default case, taken when no other case is ready: weighted
\* pick and dispatch of one attempt.
Attempt ==
    /\ req.pc = "loop"
    /\ LoopCondition(req.retry, model.MaxRetry)
    /\ ~DoneReady
    /\ \E res \in WeightedRandom(req.items) :
          req' = IF res.err # ""
                 THEN [req EXCEPT !.pc = "done", !.result = res.err]
                 ELSE [req EXCEPT !.pc = "awaiting",
                                  !.cur = res.item,
                                  !.dispatches = req.dispatches + 1]
    /\ UNCHANGED <<rest, now, config, model, providers, llmproviders, health, nreq,
                   tasks, checker, consecFail>>

\* A removal that leaves the map as it was.
DeleteItemKeeps(items, b) == items

DeleteItem(items, b) == [k \in (DOMAIN items) \ {b} |-> items[k]]

\* A decay by a quarter.
DecayByQuarter(items, b) == [items EXCEPT ![b] = items[b] - (items[b] \div 4)]

\* The 429 branch: items[*item] -= items[*item] / 3.
Decay(items, b) == [items EXCEPT ![b] = items[b] - (items[b] \div 3)]

\* A ChatLog row: its status and the attempt number it was built in.
ChatLog(status, retry) ==
    [Status |-> status, Retry |-> retry, TotalTokens |-> 0]

\* A channel one slot short of maxRetry.
RetryErrLogCapShort(m) == m.MaxRetry - 1

\* make(chan models.ChatLog, MaxRetry): the capacity of retryErrLog.
RetryErrLogCap(m) == m.MaxRetry

\* A send on the channel completes at once while a slot is free; on a full
\* channel it waits for the drainer.
SendReady(ch, m) == Len(ch) < RetryErrLogCap(m)

\* The outcome of the attempt in flight and its classification.  A failed
\* attempt sends its error ChatLog to the retryErrLog channel; a successful
\* one saves its ChatLog itself.
Response(outcome, saved) ==
    /\ req.pc = "awaiting"
    /\ outcome # StatusOK => SendReady(req.retryErrLog, model)
    /\ LET b == req.cur
           p == llmproviders[b].ProviderID
           next == [req EXCEPT !.pc = "loop", !.retry = req.retry + 1,
                               !.lastStatus = outcome,
                               !.updated = req.updated \cup {p},
                               !.retryErrLog =
                                   Append(req.retryErrLog,
                                          ChatLog("error", req.retry))]
       IN  IF outcome = 0
           THEN /\ req' = [next EXCEPT !.items = DeleteItem(req.items, b),
                                       !.hardFailed = req.hardFailed \cup {b}]
                /\ tasks' = Launch(tasks, HealthTask("error", p))
           ELSE IF outcome # StatusOK
           THEN /\ tasks' = Launch(tasks, HealthTask("error", p))
                /\ req' = IF outcome = StatusTooManyRequests
                          THEN [next EXCEPT
                                  !.items = Decay(req.items, b),
                                  !.limited = req.limited \cup {b}]
                          ELSE [next EXCEPT
                                  !.items = DeleteItem(req.items, b),
                                  !.hardFailed = req.hardFailed \cup {b}]
           ELSE /\ tasks' = Launch(tasks, HealthTask("success", p))
                /\ req' = [req EXCEPT
                             !.pc = "done",
                             !.lastStatus = outcome,
                             !.updated = req.updated \cup {p},
                             !.chatLogs =
                                 IF saved
                                 THEN Append(req.chatLogs,
                                             ChatLog("success", req.retry))
                                 ELSE req.chatLogs,
                             !.usageTasks =
                                 IF saved
                                 THEN Append(req.usageTasks,
                                             ChatLog("success", req.retry))
                                 ELSE req.usageTasks,
                             !.result = IF saved THEN ResultOK
                                        ELSE ErrSaveChatLog]
    /\ UNCHANGED <<rest, now, config, model, providers, llmproviders, health,
                   nreq, checker, consecFail>>

Respond == \E outcome \in Outcomes, saved \in BOOLEAN : Response(outcome, saved)

-----------------------------------------------------------------------------
(* The health updates the router launches, each in its own goroutine.      *)

\* The stored row after updateProviderHealthOnError.
updateProviderHealthOnError(v, cfg, t) ==
    IF ~v.exists THEN OnErrorCreate(t) ELSE OnErrorUpdate(v, cfg, t)

\* The stored row after updateProviderHealthOnSuccess.
updateProviderHealthOnSuccess(v, t) ==
    IF ~v.exists THEN OnSuccessCreate(t) ELSE OnSuccessUpdate(v, t)

\* One launched health update runs.
RunHealthTask ==
    \E t \in {x \in HealthTasks : tasks[x] > 0} :
        LET p == t.provider
        IN  /\ health' = [health EXCEPT ![p] =
                             IF t.kind = "error"
                             THEN updateProviderHealthOnError(health[p],
                                                              config, now)
                             ELSE updateProviderHealthOnSuccess(health[p],
                                                                now)]
            /\ consecFail' = [consecFail EXCEPT ![p] =
                                 IF t.kind = "error" THEN consecFail[p] + 1
                                 ELSE 0]
            /\ tasks' = [tasks EXCEPT ![t] = tasks[t] - 1]
            /\ UNCHANGED <<rest, now, config, model, providers, llmproviders, req,
                           nreq, checker>>

-----------------------------------------------------------------------------
(* The background health checker.                                          *)

LastProvider == CHOOSE p \in Providers : \A q \in Providers : q <= p

\* run: the ticker fires (or the service starts) and checkAllProviders
\* begins a scan; a disabled configuration ends it at once.
checkAllProviders ==
    /\ checker.pc = "sleep"
    /\ checker.scans < MaxScans
    /\ checker' = IF config.Enabled
                  THEN [checker EXCEPT !.pc = "scan", !.idx = 1,
                                       !.probed = FALSE,
                                       !.scans = checker.scans + 1]
                  ELSE [checker EXCEPT !.scans = checker.scans + 1]
    /\ UNCHANGED <<rest, now, config, model, providers, llmproviders, health, req,
                   nreq, tasks, consecFail>>

\* checkProvider for the next provider of the scan, its probe answered
\* with `status`: the row is read or created; an unhealthy provider before
\* its retry time is skipped; otherwise the probe is sent, its outcome
\* classified and the row saved.
checkProviderOn(status) ==
    /\ checker.pc = "scan"
    /\ LET p == checker.idx
           v == IF health[p].exists THEN health[p] ELSE CheckerCreate(now)
           skip == CheckerSkips(v, now)
           ok == performHealthCheck(status)
       IN  /\ health' = [health EXCEPT ![p] =
                            IF skip THEN v
                            ELSE CheckerUpdate(v, config, ok, now)]
           /\ consecFail' = [consecFail EXCEPT ![p] =
                                IF skip THEN consecFail[p]
                                ELSE IF ok THEN 0
                                ELSE consecFail[p] + 1]
           /\ checker' = [checker EXCEPT
                            !.pc = IF p = LastProvider THEN "sleep"
                                   ELSE "scan",
                            !.idx = IF p = LastProvider THEN 0 ELSE p + 1,
                            !.probed = ~skip]
    /\ UNCHANGED <<rest, now, config, model, providers, llmproviders, req,
                   nreq, tasks>>

checkProvider == \E status \in ProbeOutcomes : checkProviderOn(status)

-----------------------------------------------------------------------------

Tick ==
    /\ now < MaxTime
    /\ now' = now + 1
    /\ UNCHANGED <<rest, config, model, providers, llmproviders, health, req, nreq,
                   tasks, checker, consecFail>>

Next ==
    \/ PlainRequest
    \/ RetryExhausted
    \/ RetryTimeOut
    \/ Attempt
    \/ Respond
    \/ RunHealthTask
    \/ checkAllProviders
    \/ checkProvider
    \/ Tick

Spec == Init /\ [][Next]_vars

-----------------------------------------------------------------------------
(* The capability filter on its own: every combination of flags on          *)
(* binding 1, binding 2 without flags, all flags refusing or all granting,  *)
(* and requests with every combination of needs.  No health row is ever     *)
(* written here, so every provider reads healthy.                           *)

FlagProfiles == [ToolCall : Tri, StructuredOutput : Tri, Image : Tri]

UniformProfiles ==
    {[ToolCall |-> f, StructuredOutput |-> f, Image |-> f] : f \in Tri}

FlaggedBinding(b, flags) ==
    [ProviderID |-> BindingProvider(b), ToolCall |-> flags.ToolCall,
     StructuredOutput |-> flags.StructuredOutput, Image |-> flags.Image,
     Weight |-> 1]

CapabilityBindings ==
    {[b \in Bindings |-> FlaggedBinding(b, IF b = 1 THEN f1 ELSE f2)] :
        f1 \in FlagProfiles, f2 \in UniformProfiles}

InitCap ==
    /\ now = 0
    /\ config = [Enabled |-> TRUE, MaxErrorCount |-> MaxErrorCountBound,
                 RetryAfterHours |-> MaxRetryAfterHours]
    /\ model = [MaxRetry |-> MaxRetryBound, TimeOut |-> MaxTimeOut]
    /\ providers \in ProviderTables
    /\ llmproviders \in CapabilityBindings
    /\ health = [p \in Providers |-> NoRecord]
    /\ req = IdleReq
    /\ nreq = 0
    /\ tasks = NoTasks
    /\ checker = IdleChecker
    /\ consecFail = [p \in Providers |-> 0]
    /\ probeStatus = Nil
    /\ CacheIdle
    /\ StreamIdle
    /\ PoolIdle
    /\ PairIdle
    /\ PureIdle
    /\ UpdIdle

NextCap ==
    \/ AnyRequest
    \/ RetryExhausted
    \/ Attempt
    \/ Respond

SpecCap == InitCap /\ [][NextCap]_vars

-----------------------------------------------------------------------------
(* The health checker on its own, every probe of a run answered with the    *)
(* same outcome: a transport error (0) or any HTTP status.                  *)

StatusCodes == {0} \cup (100..599)

InitProbe ==
    /\ now = 0
    /\ config \in [Enabled : {TRUE},
                   MaxErrorCount : 1..MaxErrorCountBound,
                   RetryAfterHours : 0..MaxRetryAfterHours]
    /\ model = [MaxRetry |-> MaxRetryBound, TimeOut |-> MaxTimeOut]
    /\ providers \in ProviderTables
    /\ llmproviders \in RouterBindings
    /\ health = [p \in Providers |-> NoRecord]
    /\ req = IdleReq
    /\ nreq = 0
    /\ tasks = NoTasks
    /\ checker = IdleChecker
    /\ consecFail = [p \in Providers |-> 0]
    /\ probeStatus \in StatusCodes
    /\ CacheIdle
    /\ StreamIdle
    /\ PoolIdle
    /\ PairIdle
    /\ PureIdle
    /\ UpdIdle

ScriptedProbe == probeStatus # Nil /\ checkProviderOn(probeStatus)

NextProbe ==
    \/ checkAllProviders
    \/ ScriptedProbe
    \/ Tick

SpecProbe == InitProbe /\ [][NextProbe]_vars

-----------------------------------------------------------------------------
(* Properties.                                                             *)

TypeOK == req.pc \in {"idle", "loop", "awaiting", "done"}

ProviderOf(b) == llmproviders[b].ProviderID

Active == req.pc \in {"loop", "awaiting", "done"}

\* The step that starts an upstream attempt.
DispatchStep == req.pc = "loop" /\ req'.pc = "awaiting"

\* The step that classifies the attempt in flight as rate limited.
RateLimitedStep ==
    req.pc = "awaiting" /\ req'.pc = "loop" /\ req'.lastStatus = 429

SelectionErrors == {ErrNoProvider, ErrNoStyleProvider, ErrNoCapable}

\* C1: with a positive timeout, no upstream attempt is started once the
\* model's timeout has elapsed since the retry loop began.
C1_NoAttemptAfterBudget ==
    [][(DispatchStep /\ model.TimeOut > 0)
          => now - req.loopStart < model.TimeOut]_vars

\* C2: the retry loop dispatches at most maxRetry attempts; with
\* maxRetry = 0 a request that reaches the loop makes no upstream call,
\* launches no health update and ends with the retry-exhausted error.
C2_DispatchesBounded ==
    /\ req.dispatches <= model.MaxRetry
    /\ (model.MaxRetry = 0 => req.pc # "awaiting")
    /\ (model.MaxRetry = 0 /\ req.pc = "done"
            /\ req.result \notin SelectionErrors)
          => (req.result = ErrMaxRetry /\ req.dispatches = 0
                 /\ req.updated = {})

C2_Witness ==
    /\ model.MaxRetry = 0
    /\ req.pc = "done"
    /\ req.result = ErrMaxRetry

\* C3: a model with a binding to a provider of the requested dialect is
\* never rejected at selection with the no-provider-of-this-dialect error.
C3_NotRejectedForHealth ==
    (req.pc = "done" /\ req.result = ErrNoStyleProvider)
       => ~(\E b \in DOMAIN llmproviders :
               providers[ProviderOf(b)].Type = req.style)

Refuses(b) ==
    \/ req.before.toolCall /\ llmproviders[b].ToolCall = "false"
    \/ req.before.structuredOutput /\ llmproviders[b].StructuredOutput = "false"
    \/ req.before.image /\ llmproviders[b].Image = "false"

\* The bindings to a provider of the requested dialect.
OfDialect == {b \in DOMAIN llmproviders :
                 providers[ProviderOf(b)].Type = req.style}

\* C5: a binding that refuses a needed capability is never in items and
\* never picked; a binding of the requested dialect that refuses none is
\* in items when the loop begins; and when every binding of the dialect
\* refuses, the request fails with no upstream call.
C5_CapabilityFilter ==
    Active =>
       /\ \A b \in DOMAIN req.items : ~Refuses(b)
       /\ (req.pc = "awaiting" => ~Refuses(req.cur))
       /\ (req.pc = "loop" /\ req.retry = 0)
             => \A b \in OfDialect : ~Refuses(b) => b \in DOMAIN req.items
       /\ (OfDialect # {} /\ \A b \in OfDialect : Refuses(b))
             => (req.pc = "done" /\ req.result = ErrNoCapable
                   /\ req.dispatches = 0)

C5_Witness ==
    /\ req.pc = "loop"
    /\ req.retry = 0
    /\ req.before.image
    /\ \E b \in OfDialect : Refuses(b) /\ b \notin DOMAIN req.items
    /\ \E b \in OfDialect : llmproviders[b].Image = "nil"
                              /\ b \in DOMAIN req.items

\* C6: a binding whose attempt ended in a transport error or in a status
\* other than 200 and 429 is out of items and is not the binding of a
\* later attempt; a binding whose attempts ended in 429 is in items with a
\* positive weight and the picker can still return it.
C6_RemovedOrKept ==
    Active =>
       /\ \A b \in req.hardFailed :
             /\ b \notin DOMAIN req.items
             /\ (req.pc = "awaiting" => req.cur # b)
       /\ \A b \in req.limited \ req.hardFailed :
             /\ b \in DOMAIN req.items
             /\ req.items[b] >= 1
             /\ Picked(b) \in WeightedRandom(req.items)

C6_Witness ==
    /\ req.pc = "loop"
    /\ req.hardFailed # {}
    /\ req.limited \ req.hardFailed # {}

\* C7 as stated: every rate-limited retry strictly decreases the sum of
\* the weights in items.
C7_SumStrictlyDecreases ==
    [][RateLimitedStep
          => TotalWeight(req'.items) < TotalWeight(req.items)]_vars

\* C7 as amended: a rate-limited retry never increases the sum of the
\* weights; it strictly decreases it when the binding's weight was 3 or
\* more and leaves it unchanged when the weight was 1 or 2.
C7_SumDecreasesFromThree ==
    [][RateLimitedStep
          => /\ (req.items[req.cur] >= 3
                   => TotalWeight(req'.items) < TotalWeight(req.items))
             /\ (req.items[req.cur] < 3
                   => TotalWeight(req'.items) = TotalWeight(req.items))]_vars

C7_Witness ==
    /\ req.pc = "loop"
    /\ req.lastStatus = 429
    /\ \E b \in req.limited : b \in DOMAIN req.items
                               /\ req.items[b] < llmproviders[b].Weight

\* C8: a health row goes from healthy to unhealthy only when at least
\* maxErrorCount failures were applied to it since the last success.
C8_UnhealthyOnlyAfterConsecutive ==
    [][\A p \in Providers :
          (health[p].IsHealthy /\ ~health'[p].IsHealthy)
             => consecFail'[p] >= config.MaxErrorCount]_vars

\* C9: every stored health row has no retry time while healthy and a
\* retry time not before its last validation while unhealthy.
C9_RecordInvariant ==
    \A p \in Providers :
        health[p].exists =>
           /\ (health[p].IsHealthy => health[p].NextRetryAt = Nil)
           /\ (~health[p].IsHealthy
                 => /\ health[p].NextRetryAt # Nil
                    /\ health[p].NextRetryAt >= health[p].LastValidatedAt)

IsHealthyNow(p) == GetProviderHealth(health, p).IsHealthy

\* The provider the checker examines in this step is marked unhealthy
\* and its retry time has not come.
BeforeRetryTime(p) ==
    /\ health[p].exists
    /\ ~health[p].IsHealthy
    /\ now < health[p].NextRetryAt

\* The checker's step for one provider sent a probe.
ProbeStep == checker.pc = "scan" /\ checker' # checker /\ checker'.probed

\* C10 as stated: the checker sends no probe to an unhealthy provider
\* before its retry time, and the router starts an attempt at a provider
\* marked unhealthy only when the healthy set is empty, as selection read
\* it or as stored when the attempt starts.
C10_OnlyDegradedDispatch ==
    [][/\ ProbeStep => ~BeforeRetryTime(checker.idx)
       /\ (DispatchStep /\ ~IsHealthyNow(ProviderOf(req'.cur)))
             => \/ req.degraded
                \/ \A p \in providerIds : ~IsHealthyNow(p)]_vars

\* C10 as amended: the checker sends no probe to an unhealthy provider
\* before its retry time, and the router starts an attempt at a provider
\* marked unhealthy only in a request whose selection found the healthy
\* set empty or had read that provider as healthy before it was marked.
C10_DegradedOrInFlight ==
    [][/\ ProbeStep => ~BeforeRetryTime(checker.idx)
       /\ (DispatchStep /\ ~IsHealthyNow(ProviderOf(req'.cur)))
             => \/ req.degraded
                \/ ProviderOf(req'.cur) \in req.snapHealthy]_vars

C10_Witness ==
    /\ req.pc = "awaiting"
    /\ req.degraded
    /\ BeforeRetryTime(ProviderOf(req.cur))

-----------------------------------------------------------------------------
(* The configuration cache: readers, and the refreshes they start.         *)

\* isCacheExpired
isCacheExpired(c, t) == t - c.lastRefreshTime > c.cacheTTL

\* The cache maps after a full rebuild from the database.
ModelCacheFull == [n \in {ModelName} |-> model]
ProviderCacheFull == providers
ModelProviderCacheFull == [n \in {ModelName} |-> llmproviders]

\* `go refreshCache()`: the read starts a refresh goroutine when it saw the
\* cache expired.
Spawn(rs, expired) ==
    IF expired
    THEN LET g == CHOOSE x \in Refreshers : rs[x].pc = "none"
         IN  [rs EXCEPT ![g].pc = "gate", ![g].seen = cc.lastRefreshTime]
    ELSE rs

CanSpawn(expired) ==
    expired => \E g \in Refreshers : refreshers[g].pc = "none"

\* GetModel: a hit returns the cached row; a miss queries the database and
\* stores the row unless the query fails.
GetModel(dbOK) ==
    /\ CanSpawn(isCacheExpired(cc, now))
    /\ refreshers' = Spawn(refreshers, isCacheExpired(cc, now))
    /\ cc' = IF ModelName \in DOMAIN cc.modelCache \/ ~dbOK THEN cc
             ELSE [cc EXCEPT !.modelCache = ModelCacheFull]
    /\ UNCHANGED <<probeStatus, stream, pool, pair, pure, upd, req, routerFrame>>

\* GetProvider
GetProvider(id, dbOK) ==
    /\ CanSpawn(isCacheExpired(cc, now))
    /\ refreshers' = Spawn(refreshers, isCacheExpired(cc, now))
    /\ cc' = IF id \in DOMAIN cc.providerCache \/ ~dbOK THEN cc
             ELSE [cc EXCEPT !.providerCache =
                      [p \in DOMAIN cc.providerCache \cup {id} |->
                          providers[p]]]
    /\ UNCHANGED <<probeStatus, stream, pool, pair, pure, upd, req, routerFrame>>

\* GetModelProviders
GetModelProviders(dbOK) ==
    /\ CanSpawn(isCacheExpired(cc, now))
    /\ refreshers' = Spawn(refreshers, isCacheExpired(cc, now))
    /\ cc' = IF ModelName \in DOMAIN cc.modelProviderCache \/ ~dbOK THEN cc
             ELSE [cc EXCEPT !.modelProviderCache = ModelProviderCacheFull]
    /\ UNCHANGED <<probeStatus, stream, pool, pair, pure, upd, req, routerFrame>>

CacheRead ==
    \E dbOK \in BOOLEAN :
        \/ GetModel(dbOK)
        \/ GetModelProviders(dbOK)
        \/ \E id \in Providers : GetProvider(id, dbOK)

\* A gate that lets every caller through.
TryLockAlways(held) == TRUE

\* refreshing.TryLock(): succeeds iff the gate is not held.
TryLock(held) == ~held

\* refreshCache up to the gate: a caller that finds the gate held returns.
RefreshGate(g) ==
    /\ refreshers[g].pc = "gate"
    /\ IF TryLock(cc.refreshing)
       THEN /\ cc' = [cc EXCEPT !.refreshing = TRUE]
            /\ refreshers' = [refreshers EXCEPT ![g].pc = "check"]
       ELSE /\ cc' = cc
            /\ refreshers' = [refreshers EXCEPT ![g].pc = "done",
                                                ![g].result = "skipped"]
    /\ UNCHANGED <<probeStatus, stream, pool, pair, pure, upd, req, routerFrame>>

\* A refresh that goes on to the queries without a second look.
RefreshNoDoubleCheck(g) ==
    /\ refreshers[g].pc = "check"
    /\ cc' = cc
    /\ refreshers' = [refreshers EXCEPT ![g].pc = "body",
                                        ![g].checked = cc.lastRefreshTime]
    /\ UNCHANGED <<probeStatus, stream, pool, pair, pure, upd, req, routerFrame>>

\* refreshCache: the second look at the TTL, under the read lock.
RefreshDoubleCheck(g) ==
    /\ refreshers[g].pc = "check"
    /\ IF isCacheExpired(cc, now)
       THEN /\ cc' = cc
            /\ refreshers' = [refreshers EXCEPT
                                ![g].pc = "body",
                                ![g].checked = cc.lastRefreshTime]
       ELSE /\ cc' = [cc EXCEPT !.refreshing = FALSE]
            /\ refreshers' = [refreshers EXCEPT
                                ![g].pc = "done",
                                ![g].result = "fresh",
                                ![g].checked = cc.lastRefreshTime]
    /\ UNCHANGED <<probeStatus, stream, pool, pair, pure, upd, req, routerFrame>>

\* refreshCache under the write lock: the maps are emptied, then the three
\* queries run (bindings, models, providers); the query numbered failAt
\* fails (0: none) and ends the refresh there.
Rebuild(c, failAt, t) ==
    [c EXCEPT
       !.modelCache = IF failAt \in {1, 2} THEN <<>> ELSE ModelCacheFull,
       !.providerCache = IF failAt # 0 THEN <<>> ELSE ProviderCacheFull,
       !.modelProviderCache = IF failAt # 0 THEN <<>>
                              ELSE ModelProviderCacheFull,
       !.lastRefreshTime = IF failAt # 0 THEN c.lastRefreshTime ELSE t]

RefreshBody(g, failAt) ==
    /\ refreshers[g].pc = "body"
    /\ cc' = [Rebuild(cc, failAt, now) EXCEPT !.refreshing = FALSE]
    /\ refreshers' = [refreshers EXCEPT
                        ![g].pc = "done",
                        ![g].queried = TRUE,
                        ![g].result = IF failAt # 0 THEN "error" ELSE "ok"]
    /\ UNCHANGED <<probeStatus, stream, pool, pair, pure, upd, req, routerFrame>>

refreshCache ==
    \E g \in Refreshers :
        \/ RefreshGate(g)
        \/ RefreshDoubleCheck(g)
        \/ \E failAt \in 0..3 : RefreshBody(g, failAt)

InitCache ==
    /\ now = 0
    /\ config = [Enabled |-> TRUE, MaxErrorCount |-> MaxErrorCountBound,
                 RetryAfterHours |-> MaxRetryAfterHours]
    /\ model = [MaxRetry |-> MaxRetryBound, TimeOut |-> MaxTimeOut]
    /\ providers \in ProviderTables
    /\ llmproviders \in RouterBindings
    /\ health = [p \in Providers |-> NoRecord]
    /\ req = IdleReq
    /\ nreq = 0
    /\ tasks = NoTasks
    /\ checker = IdleChecker
    /\ consecFail = [p \in Providers |-> 0]
    /\ probeStatus = Nil
    /\ \E ttl \in 0..MaxTTL : cc = NewConfigCache(ttl, 0)
    /\ refreshers = [g \in Refreshers |-> NoRefresher]
    /\ StreamIdle
    /\ PoolIdle
    /\ PairIdle
    /\ PureIdle
    /\ UpdIdle

NextCache ==
    \/ CacheRead
    \/ refreshCache
    \/ Tick

SpecCache == InitCache /\ [][NextCache]_vars

\* The refreshes past the gate.
PastGate == {g \in Refreshers : refreshers[g].pc \in {"check", "body"}}

\* C12: at most one refreshCache is past the gate, and the gate is held
\* exactly then; a caller at a held gate can take its step at once, and a
\* caller that was turned away has queried nothing.
C12_SingleFlight ==
    /\ Cardinality(PastGate) <= 1
    /\ cc.refreshing <=> PastGate # {}
    /\ \A g \in Refreshers :
          /\ refreshers[g].pc = "gate" => ENABLED RefreshGate(g)
          /\ refreshers[g].result = "skipped" => ~refreshers[g].queried

C12_Witness ==
    \E g, h \in Refreshers :
        /\ refreshers[g].pc = "body"
        /\ refreshers[h].result = "skipped"

\* A refresh ends with a failed query in this step.
FailedRefreshStep ==
    \E g \in Refreshers :
        refreshers[g].pc = "body" /\ refreshers'[g].result = "error"

\* C13: a refresh whose query fails leaves the three maps and
\* lastRefreshTime as they were, and the cache is still expired, so the
\* next read starts another refresh.
C13_FailedRefreshKeepsSnapshot ==
    [][FailedRefreshStep
          => /\ cc'.modelCache = cc.modelCache
             /\ cc'.providerCache = cc.providerCache
             /\ cc'.modelProviderCache = cc.modelProviderCache
             /\ cc'.lastRefreshTime = cc.lastRefreshTime
             /\ isCacheExpired(cc', now')]_vars

-----------------------------------------------------------------------------
(* The success path after the ChatLog is saved: the upstream body is       *)
(* copied to the client through a TeeReader whose second writer is a pipe  *)
(* read by the telemetry consumer (the processer).                         *)

Bodies == UNION {[1..n -> Chunks] : n \in 0..MaxChunks}

\* BalanceChat has returned: its deferred close(retryErrLog) has run.
Returned ==
    /\ req.pc = "done"
    /\ req.result = ResultOK => stream.copier \in {"returned", "answered"}

\* A drainer that ends when the channel is closed, whatever it holds.
SaveRetryLogUntilClose(dbOK) ==
    /\ req.retryErrLog # <<>>
    /\ ~Returned
    /\ req' = [req EXCEPT
                 !.retryErrLog = Tail(req.retryErrLog),
                 !.chatLogs = IF dbOK
                              THEN Append(req.chatLogs, Head(req.retryErrLog))
                              ELSE req.chatLogs,
                 !.dropped = IF dbOK THEN req.dropped ELSE req.dropped + 1]
    /\ UNCHANGED <<rest, routerFrame>>

\* The goroutine of chat.go:124: one error ChatLog is taken from the
\* retryErrLog channel and saved, unless the save fails.
SaveRetryLog(dbOK) ==
    /\ req.retryErrLog # <<>>
    /\ req' = [req EXCEPT
                 !.retryErrLog = Tail(req.retryErrLog),
                 !.chatLogs = IF dbOK
                              THEN Append(req.chatLogs, Head(req.retryErrLog))
                              ELSE req.chatLogs,
                 !.dropped = IF dbOK THEN req.dropped ELSE req.dropped + 1]
    /\ UNCHANGED <<rest, routerFrame>>

SaveRetryLogs == \E dbOK \in BOOLEAN : SaveRetryLog(dbOK)

\* io.Pipe, io.TeeReader, `go processer(...)`, the headers, Flush.
BeginStream(body, ending, tokens) ==
    /\ req.pc = "done"
    /\ req.result = ResultOK
    /\ stream.copier = "idle"
    /\ stream' = [NoStream EXCEPT !.body = body, !.ending = ending,
                                  !.tokens = tokens,
                                  !.copier = "read", !.consumer = "scan",
                                  !.flushed = TRUE]
    /\ UNCHANGED <<probeStatus, cc, refreshers, pool, pair, pure, upd, req, routerFrame>>

StartStream ==
    \E body \in Bodies, ending \in {"eof", "error"},
       tokens \in 0..MaxTokens :
        BeginStream(body, ending, tokens)

\* io.Copy reads the tee: the next read of the upstream body.  At the end
\* of the body the read reports EOF, and io.Copy returns nil, or an error,
\* and io.Copy returns it; either way the pipe's write side is closed.
CopyRead ==
    /\ stream.copier = "read"
    /\ stream' =
          IF stream.pos < Len(stream.body)
          THEN [stream EXCEPT !.cur = stream.body[stream.pos + 1],
                              !.pos = stream.pos + 1,
                              !.copier = "tee"]
          ELSE [stream EXCEPT !.copier = "returned",
                              !.pwClosed = TRUE,
                              !.pwError = (stream.ending = "error"),
                              !.err = (stream.ending = "error")]
    /\ UNCHANGED <<probeStatus, cc, refreshers, pool, pair, pure, upd, req, routerFrame>>

\* The consumer's loop after it was handed a chunk: it goes on scanning
\* after an ordinary line and leaves the loop at "[DONE]", at an error
\* chunk and at a line the scanner cannot hold.
AfterChunk(chunk) == IF chunk = "data" THEN "scan" ELSE "update"

\* The pipe hands a write to the reader only while the reader reads.
Reads(consumer) == consumer = "scan"

\* The tee's write into the pipe.  While the consumer scans, the write is
\* handed over; once the consumer has closed its end the write fails and
\* the chunk is lost with the copy; in between (the consumer has left its
\* loop and not yet closed the pipe) the write waits.
TeeWrite ==
    /\ stream.copier = "tee"
    /\ \/ /\ Reads(stream.consumer)
          /\ stream' = [stream EXCEPT
                          !.copier = "write",
                          !.consumer = AfterChunk(stream.cur),
                          !.lastchunk = stream.lastchunk
                                          \/ stream.cur = "data",
                          !.chunkErr = stream.chunkErr
                                         \/ stream.cur \in {"error", "long"}]
       \/ /\ stream.consumer = "closed"
          /\ stream' = [stream EXCEPT !.copier = "returned",
                                      !.cur = "",
                                      !.pwClosed = TRUE,
                                      !.pwError = TRUE,
                                      !.err = TRUE]
    /\ UNCHANGED <<probeStatus, cc, refreshers, pool, pair, pure, upd, req, routerFrame>>

\* A copy that returns the client's write error and leaves the pipe open.
ClientWriteLeavesPipe(ok) ==
    /\ stream.copier = "write"
    /\ stream' =
          IF ok
          THEN [stream EXCEPT !.client = Append(stream.client, stream.cur),
                              !.cur = "",
                              !.copier = "read"]
          ELSE [stream EXCEPT !.cur = "",
                              !.copier = "returned",
                              !.clientGone = TRUE,
                              !.err = TRUE]
    /\ UNCHANGED <<probeStatus, cc, refreshers, pool, pair, pure, upd, req, routerFrame>>

\* io.Copy writes the chunk to the client, or the client is gone and the
\* write fails.
ClientWrite(ok) ==
    /\ stream.copier = "write"
    /\ stream' =
          IF ok
          THEN [stream EXCEPT !.client = Append(stream.client, stream.cur),
                              !.cur = "",
                              !.copier = "read"]
          ELSE [stream EXCEPT !.cur = "",
                              !.copier = "returned",
                              !.clientGone = TRUE,
                              !.pwClosed = TRUE,
                              !.pwError = TRUE,
                              !.err = TRUE]
    /\ UNCHANGED <<probeStatus, cc, refreshers, pool, pair, pure, upd, req, routerFrame>>

CopyWrite == \E ok \in BOOLEAN : ClientWrite(ok)

\* The consumer's scanner reaches the closed end of the pipe.
ScanEnd ==
    /\ stream.consumer = "scan"
    /\ stream.pwClosed
    /\ stream' = [stream EXCEPT
                    !.consumer = "update",
                    !.chunkErr = stream.chunkErr \/ stream.pwError]
    /\ UNCHANGED <<probeStatus, cc, refreshers, pool, pair, pure, upd, req, routerFrame>>

\* Updates(ctx, log) on the row logId: with a chunk error the row's status
\* becomes "error", and a usage that is not zero is stored.
UpdateLog(logs, chunkErr, usage) ==
    [i \in 1..Len(logs) |->
        IF logs[i].Status = "success"
        THEN [logs[i] EXCEPT !.Status = IF chunkErr THEN "error" ELSE @,
                             !.TotalTokens = IF usage # 0 THEN usage ELSE @]
        ELSE logs[i]]

\* The processer after its loop: the ChatLog of the request is updated,
\* then the deferred pr.Close() runs.
ProcesserUpdate(dbOK) ==
    /\ stream.consumer = "update"
    /\ stream' = [stream EXCEPT !.consumer = "closed",
                                !.updates = stream.updates + 1]
    /\ req' = [req EXCEPT !.chatLogs =
                  IF dbOK
                  THEN UpdateLog(req.chatLogs, stream.chunkErr,
                                 IF stream.lastchunk THEN stream.tokens
                                 ELSE 0)
                  ELSE req.chatLogs]
    /\ UNCHANGED <<probeStatus, cc, refreshers, pool, pair, pure, upd, routerFrame>>

Processer == \E dbOK \in BOOLEAN : ProcesserUpdate(dbOK)

\* BalanceChat has returned to the handler: an error is answered with
\* InternalServerError, which writes its JSON body to the response.
HandlerReturn ==
    /\ stream.copier = "returned"
    /\ stream' = [stream EXCEPT !.copier = "answered",
                                !.errorBody = stream.err]
    /\ UNCHANGED <<probeStatus, cc, refreshers, pool, pair, pure, upd, req, routerFrame>>

InitStream ==
    /\ now = 0
    /\ config = [Enabled |-> TRUE, MaxErrorCount |-> MaxErrorCountBound,
                 RetryAfterHours |-> MaxRetryAfterHours]
    /\ model = [MaxRetry |-> MaxRetryBound, TimeOut |-> MaxTimeOut]
    /\ providers = [p \in Providers |-> [Type |-> "openai"]]
    /\ llmproviders \in RouterBindings
    /\ health = [p \in Providers |-> NoRecord]
    /\ req = IdleReq
    /\ nreq = 0
    /\ tasks = NoTasks
    /\ checker = IdleChecker
    /\ consecFail = [p \in Providers |-> 0]
    /\ probeStatus = Nil
    /\ CacheIdle
    /\ StreamIdle
    /\ PoolIdle
    /\ PairIdle
    /\ PureIdle
    /\ UpdIdle

NextStream ==
    \/ PlainRequest
    \/ RetryExhausted
    \/ Attempt
    \/ Respond
    \/ SaveRetryLogs
    \/ StartStream
    \/ CopyRead
    \/ TeeWrite
    \/ CopyWrite
    \/ ScanEnd
    \/ Processer
    \/ HandlerReturn

SpecStream == InitStream /\ [][NextStream]_vars

\* C14: the copy to the client never waits for the telemetry consumer,
\* and when neither the upstream read nor the client write failed, the
\* client has received the whole upstream body, in order.
C14_ClientGetsWholeBody ==
    /\ stream.copier = "tee" => stream.consumer # "update"
    /\ (stream.copier \in {"returned", "answered"}
          /\ stream.ending = "eof" /\ ~stream.clientGone)
         => stream.client = stream.body

\* The positions of the request's persisted ChatLogs with this status.
LogsWith(status) ==
    {i \in 1..Len(req.chatLogs) : req.chatLogs[i].Status = status}

\* C15: a request answered with the upstream's 200 has exactly one success
\* ChatLog and at most maxRetry - 1 error ChatLogs, each persisted before
\* the success ChatLog.
C15_OneSuccessLog ==
    (req.pc = "done" /\ req.result = ResultOK)
       => /\ Cardinality(LogsWith("success")) = 1
          /\ Cardinality(LogsWith("error")) <= model.MaxRetry - 1
          /\ \A i \in LogsWith("error"), j \in LogsWith("success") : i < j

\* C19: once the response has been flushed, no error body is written to
\* the client.
C19_NoErrorBodyAfterFlush == stream.flushed => ~stream.errorBody

\* The checker's step applied the failure path to the provider it
\* examined: the row's error count went up by one.
FailureApplied ==
    LET p == checker.idx
    IN  health'[p].ErrorCount =
           (IF health[p].exists THEN health[p].ErrorCount ELSE 0) + 1

\* The statuses the classifier names as a reachable provider.
Reachable(status) ==
    \/ status >= 200 /\ status < 300
    \/ status \in {401, 403, 404, 429}

\* C11 as stated: a probe is counted as a failure exactly when it ended
\* in a transport error or a 5xx status.
C11_FailureIffServerError ==
    [][ProbeStep => (FailureApplied
                       <=> (probeStatus = 0 \/ probeStatus >= 500))]_vars

\* C11 as amended: a probe is counted as a success exactly when its status
\* is 2xx, 401, 403, 404 or 429; a transport error and every other status
\* (5xx, but also 1xx, 3xx and the remaining 4xx) count as a failure.
C11_FailureIffNotReachable ==
    [][ProbeStep => /\ FailureApplied <=> ~Reachable(probeStatus)
                    /\ (probeStatus = 0 \/ probeStatus >= 500)
                          => FailureApplied]_vars

C11_Witness ==
    /\ probeStatus = 429
    /\ checker.probed
    /\ health[1].exists
    /\ health[1].ErrorCount = 0
    /\ health[1].ConsecutiveSuccesses = 1

-----------------------------------------------------------------------------
(***************************************************************************)
(* The per-host connection pool, providers/connection_pool.go.  One host   *)
(* is modelled: every host has its own HostPool and no operation touches   *)
(* two of them.  pool.held is the set of clients that callers obtained and *)
(* have not given back; pool.err is the result of the last GetClient.      *)
(***************************************************************************)

\* Clients ever created for the host, and the last tick of the pool's clock.
MaxClients == 3
MaxPoolTime == 7

\* The largest maxConnsPerHost and maxIdleConns a pool is constructed with.
MaxConnsBound == 2
MaxIdleBound == 1

\* The changes an administrator makes to the stored configuration.
MaxEdits == 1

\* The ticks of the health checker's ticker and the calls of Stop.
MaxTicks == 1
MaxStops == 2

\* The largest timeout, in seconds, a caller passes to GetClient.
MaxTimeouts == 2

\* The largest limits of a pool whose reuse of idle clients is examined.
MaxReuseConns == 2
MaxReuseIdle == 2

\* Durations of the pool in units of five minutes: a client in use for
\* more than five minutes counts as leaked, a client older than thirty
\* minutes is recycled.
LeakTimeout == 1
MaxConnLifetime == 6

ErrConnectionLimit == "connection limit reached for host"

\* NewConnectionPool: no host pool yet.
NewConnectionPool(maxConnsPerHost, maxIdleConns) ==
    [NoPool EXCEPT !.maxConnsPerHost = maxConnsPerHost,
                   !.maxIdleConns = maxIdleConns]

\* createHostPool: an empty pool with the manager's limit, when the host
\* has none.
createHostPool(cp) ==
    IF cp.exists THEN cp
    ELSE [cp EXCEPT !.exists = TRUE, !.maxConns = cp.maxConnsPerHost,
                    !.lastCheck = cp.clock]

\* isClientHealthy: the Transport is set and keeps connections alive.
\* createNewClient builds every client that way and nothing in the
\* repository changes a client's Transport afterwards.
isClientHealthy(client) == TRUE

\* delete(hp.connInfo, client)
DeleteInfo(connInfo, client) ==
    [c \in DOMAIN connInfo \ {client} |-> connInfo[c]]

\* info.LastUsedAt = time.Now(), when the client has an entry.
Touch(connInfo, client, t) ==
    IF client \in DOMAIN connInfo
    THEN [connInfo EXCEPT ![client].LastUsedAt = t]
    ELSE connInfo

\* hp.connInfo[client] = &ConnectionInfo{...} for a new client.
PutInfo(connInfo, client, t) ==
    [c \in DOMAIN connInfo \cup {client} |->
        IF c = client THEN [CreatedAt |-> t, LastUsedAt |-> t]
        ELSE connInfo[c]]

\* The timeouts a caller passes to GetClient, in seconds.
Timeouts == 1..MaxTimeouts

\* createNewClient: the new client's Transport has the caller's timeout as
\* its ResponseHeaderTimeout.
createNewClient(transport, client, timeout) ==
    [c \in DOMAIN transport \cup {client} |->
        IF c = client THEN timeout ELSE transport[c]]

\* The first part of HostPool.getClient: the pool after the select on the
\* idle queue when the client taken from it, if any, is not handed out.
DropUnhealthyIdle(hp) ==
    IF hp.idleConns = <<>> THEN hp
    ELSE [hp EXCEPT !.idleConns = Tail(@),
                    !.connInfo = DeleteInfo(@, Head(hp.idleConns)),
                    !.activeConns = @ - 1]

\* HostPool.getClient reuses the head of the idle queue.
ReusesIdle(hp) == hp.idleConns # <<>> /\ isClientHealthy(Head(hp.idleConns))

\* HostPool.getClient: pool.got is the client it returns, 0 for nil.
getClient(hp, timeout) ==
    IF ReusesIdle(hp)
    THEN LET client == Head(hp.idleConns)
         IN  [hp EXCEPT !.idleConns = Tail(@),
                        !.inUse = @ \cup {client},
                        !.activeConns = @ + 1,
                        !.connInfo = Touch(@, client, hp.clock),
                        !.held = @ \cup {client},
                        !.err = "ok",
                        !.asked = timeout,
                        !.got = client]
    ELSE LET h1 == DropUnhealthyIdle(hp)
             client == h1.created + 1
         IN  IF h1.activeConns >= h1.maxConns
             THEN [h1 EXCEPT !.err = ErrConnectionLimit,
                             !.asked = timeout,
                             !.got = 0]
             ELSE [h1 EXCEPT !.created = client,
                             !.inUse = @ \cup {client},
                             !.activeConns = @ + 1,
                             !.connInfo = PutInfo(@, client, h1.clock),
                             !.transport =
                                 createNewClient(@, client, timeout),
                             !.held = @ \cup {client},
                             !.err = "ok",
                             !.asked = timeout,
                             !.got = client]

\* ConnectionPool.GetClient: the host pool is created on first use.
GetClientWith(timeout) ==
    /\ getClient(createHostPool(pool), timeout).created <= MaxClients
    /\ pool' = getClient(createHostPool(pool), timeout)
    /\ UNCHANGED <<probeStatus, cc, refreshers, stream, pair, pure, upd, req, routerFrame>>

\* GetClient by callers that all pass the same timeout.
GetClient == GetClientWith(1)

\* GetClient by callers with timeouts of their own.
GetClientAny == \E timeout \in Timeouts : GetClientWith(timeout)

\* A release that queues the client whatever the queue holds.
returnClientUnbounded(hp, client) ==
    IF client \notin hp.inUse
    THEN [hp EXCEPT !.connInfo = DeleteInfo(@, client)]
    ELSE [hp EXCEPT !.inUse = @ \ {client},
                    !.activeConns = @ - 1,
                    !.connInfo = Touch(@, client, hp.clock),
                    !.idleConns = Append(@, client)]

\* HostPool.returnClient
returnClient(hp, client) ==
    IF client \notin hp.inUse
    THEN [hp EXCEPT !.connInfo = DeleteInfo(@, client)]
    ELSE LET h1 == [hp EXCEPT !.inUse = @ \ {client},
                              !.activeConns = @ - 1,
                              !.connInfo = Touch(@, client, hp.clock)]
             closed == [h1 EXCEPT !.connInfo = DeleteInfo(@, client)]
         IN  IF ~isClientHealthy(client) THEN closed
             ELSE IF /\ client \in DOMAIN h1.connInfo
                     /\ h1.clock - h1.connInfo[client].CreatedAt
                          > MaxConnLifetime
                  THEN closed
             ELSE IF Len(h1.idleConns) < h1.maxIdleConns
                  THEN [h1 EXCEPT !.idleConns = Append(@, client)]
             ELSE closed

\* ConnectionPool.ReturnClient, called by a holder of the client.
ReturnClient ==
    \E client \in pool.held :
        /\ pool' = [returnClient(pool, client) EXCEPT !.held = @ \ {client}]
        /\ UNCHANGED <<probeStatus, cc, refreshers, stream, pair, pure, upd, req, routerFrame>>

\* An idle client the sweep recycles.
SweepsIdle(hp, client) ==
    \/ ~isClientHealthy(client)
    \/ /\ client \in DOMAIN hp.connInfo
       /\ hp.clock - hp.connInfo[client].CreatedAt > MaxConnLifetime

\* A client in use the sweep declares leaked.
SweepsLeaked(hp, client) ==
    /\ client \in DOMAIN hp.connInfo
    /\ hp.clock - hp.connInfo[client].LastUsedAt > LeakTimeout

\* The body of ConnectionPool.performHealthCheck for one host pool: the
\* idle queue is drained and its surviving clients queued again in order,
\* then the leaked clients are dropped from the in-use set.
sweepHostPool(hp) ==
    LET recycled == {hp.idleConns[i] : i \in
                       {j \in 1..Len(hp.idleConns) :
                            SweepsIdle(hp, hp.idleConns[j])}}
        kept     == SelectSeq(hp.idleConns,
                              LAMBDA c : ~SweepsIdle(hp, c))
        leaked   == {c \in hp.inUse : SweepsLeaked(hp, c)}
        gone     == recycled \cup leaked
    IN  [hp EXCEPT !.idleConns = kept,
                   !.inUse = @ \ leaked,
                   !.connInfo = [c \in DOMAIN @ \ gone |-> hp.connInfo[c]],
                   !.activeConns = @ - Cardinality(recycled)
                                     - Cardinality(leaked),
                   !.lastCheck = hp.clock]

\* ConnectionPool.performHealthCheck, run by the ticker of
\* startHealthCheck.
poolHealthCheck ==
    /\ pool.exists
    /\ pool' = sweepHostPool(pool)
    /\ UNCHANGED <<probeStatus, cc, refreshers, stream, pair, pure, upd, req, routerFrame>>

\* Five minutes pass.
PoolTick ==
    /\ pool.clock < MaxPoolTime
    /\ pool' = [pool EXCEPT !.clock = @ + 1]
    /\ UNCHANGED <<probeStatus, cc, refreshers, stream, pair, pure, upd, req, routerFrame>>

InitPool ==
    /\ now = 0
    /\ config = [Enabled |-> TRUE, MaxErrorCount |-> MaxErrorCountBound,
                 RetryAfterHours |-> MaxRetryAfterHours]
    /\ model = [MaxRetry |-> MaxRetryBound, TimeOut |-> MaxTimeOut]
    /\ providers = [p \in Providers |-> [Type |-> "openai"]]
    /\ llmproviders \in RouterBindings
    /\ health = [p \in Providers |-> NoRecord]
    /\ req = IdleReq
    /\ nreq = 0
    /\ tasks = NoTasks
    /\ checker = IdleChecker
    /\ consecFail = [p \in Providers |-> 0]
    /\ probeStatus = Nil
    /\ CacheIdle
    /\ StreamIdle
    /\ PairIdle
    /\ PureIdle
    /\ UpdIdle
    /\ \E maxConnsPerHost \in 1..MaxConnsBound,
          maxIdleConns \in 0..MaxIdleBound :
           pool = NewConnectionPool(maxConnsPerHost, maxIdleConns)

NextPool ==
    \/ GetClient
    \/ ReturnClient
    \/ poolHealthCheck
    \/ PoolTick

SpecPool == InitPool /\ [][NextPool]_vars

\* The pool within five minutes of its construction, with idle queues of
\* up to MaxReuseIdle clients and callers with different timeouts.
InitReuse ==
    /\ now = 0
    /\ config = [Enabled |-> TRUE, MaxErrorCount |-> MaxErrorCountBound,
                 RetryAfterHours |-> MaxRetryAfterHours]
    /\ model = [MaxRetry |-> MaxRetryBound, TimeOut |-> MaxTimeOut]
    /\ providers = [p \in Providers |-> [Type |-> "openai"]]
    /\ llmproviders \in RouterBindings
    /\ health = [p \in Providers |-> NoRecord]
    /\ req = IdleReq
    /\ nreq = 0
    /\ tasks = NoTasks
    /\ checker = IdleChecker
    /\ consecFail = [p \in Providers |-> 0]
    /\ probeStatus = Nil
    /\ CacheIdle
    /\ StreamIdle
    /\ PairIdle
    /\ PureIdle
    /\ UpdIdle
    /\ \E maxConnsPerHost \in 1..MaxReuseConns,
          maxIdleConns \in 0..MaxReuseIdle :
           pool = NewConnectionPool(maxConnsPerHost, maxIdleConns)

NextReuse ==
    \/ GetClientAny
    \/ ReturnClient
    \/ poolHealthCheck

SpecReuse == InitReuse /\ [][NextReuse]_vars

\* C16: the in-use set of a host never holds more than maxConnsPerHost
\* clients, whatever GetClient, ReturnClient and the sweep did before.
C16_InUseWithinLimit ==
    pool.exists => Cardinality(pool.inUse) <= pool.maxConns

-----------------------------------------------------------------------------
(***************************************************************************)
(* Two concurrent runs of BalanceChatWithExclusions for the same model.    *)
(* Each run is the code of the router above, with its items map kept in    *)
(* the heap.                                                               *)
(***************************************************************************)

\* An allocation that hands every request the same map.
MakeItemsShared(r) == 1

\* items := make(map[uint]int): the address of the map request r allocates.
MakeItems(r) == r

\* The heap with map m stored at address a.
HeapPut(heap, a, m) ==
    [x \in DOMAIN heap \cup {a} |-> IF x = a THEN m ELSE heap[x]]

\* The items map of request r.
ItemsOf(r) == pair.heap[pair.r[r].ref]

PairFrame ==
    UNCHANGED <<probeStatus, cc, refreshers, stream, pool, pure, upd, req, now, config,
                model, providers, llmproviders, health, nreq, checker,
                consecFail>>

\* Candidate selection of request r.
PairStart(r, style) ==
    /\ pair.r[r].pc = "idle"
    /\ LET items == BuildItems(style, NoFacts, {})
           fail(e) == [pair EXCEPT !.r[r].pc = "done", !.r[r].result = e]
       IN  pair' = IF DOMAIN llmproviders = {} THEN fail(ErrNoProvider)
                   ELSE IF provideritems(style, {}) = {}
                   THEN fail(ErrNoStyleProvider)
                   ELSE IF DOMAIN items = {} THEN fail(ErrNoCapable)
                   ELSE [pair EXCEPT
                           !.heap = HeapPut(@, MakeItems(r), items),
                           !.r[r].ref = MakeItems(r),
                           !.r[r].pc = "loop"]
    /\ UNCHANGED tasks
    /\ PairFrame

\* The loop condition of request r fails.
PairExhausted(r) ==
    /\ pair.r[r].pc = "loop"
    /\ ~LoopCondition(pair.r[r].retry, model.MaxRetry)
    /\ pair' = [pair EXCEPT !.r[r].pc = "done", !.r[r].result = ErrMaxRetry]
    /\ UNCHANGED tasks
    /\ PairFrame

\* The time.After case of request r's select.
PairTimeOut(r) ==
    /\ pair.r[r].pc = "loop"
    /\ LoopCondition(pair.r[r].retry, model.MaxRetry)
    /\ AfterReady(now, model.TimeOut)
    /\ pair' = [pair EXCEPT !.r[r].pc = "done",
                            !.r[r].result = ErrRetryTimeOut]
    /\ UNCHANGED tasks
    /\ PairFrame

\* The default case of request r's select.
PairAttempt(r) ==
    /\ pair.r[r].pc = "loop"
    /\ LoopCondition(pair.r[r].retry, model.MaxRetry)
    /\ \E res \in WeightedRandom(ItemsOf(r)) :
          pair' = IF res.err # ""
                  THEN [pair EXCEPT !.r[r].pc = "done",
                                    !.r[r].result = res.err]
                  ELSE [pair EXCEPT !.r[r].pc = "awaiting",
                                    !.r[r].cur = res.item]
    /\ UNCHANGED tasks
    /\ PairFrame

\* The outcome of request r's attempt in flight.
PairResponse(r, outcome, saved) ==
    /\ pair.r[r].pc = "awaiting"
    /\ LET b == pair.r[r].cur
           p == llmproviders[b].ProviderID
           a == pair.r[r].ref
           again(items) ==
               [pair EXCEPT !.heap[a] = items,
                            !.r[r].pc = "loop",
                            !.r[r].retry = @ + 1]
       IN  IF outcome = 0
           THEN /\ pair' = again(DeleteItem(pair.heap[a], b))
                /\ tasks' = Launch(tasks, HealthTask("error", p))
           ELSE IF outcome # StatusOK
           THEN /\ tasks' = Launch(tasks, HealthTask("error", p))
                /\ pair' = IF outcome = StatusTooManyRequests
                           THEN again(Decay(pair.heap[a], b))
                           ELSE again(DeleteItem(pair.heap[a], b))
           ELSE /\ tasks' = Launch(tasks, HealthTask("success", p))
                /\ pair' = [pair EXCEPT
                              !.r[r].pc = "done",
                              !.r[r].result = IF saved THEN ResultOK
                                              ELSE ErrSaveChatLog]
    /\ PairFrame

InitPair ==
    /\ now = 0
    /\ config = [Enabled |-> TRUE, MaxErrorCount |-> MaxErrorCountBound,
                 RetryAfterHours |-> MaxRetryAfterHours]
    /\ model \in [MaxRetry : {MaxRetryBound}, TimeOut : 0..MaxTimeOut]
    /\ providers = [p \in Providers |-> [Type |-> "openai"]]
    /\ llmproviders \in RouterBindings
    /\ health = [p \in Providers |-> NoRecord]
    /\ req = IdleReq
    /\ nreq = 0
    /\ tasks = NoTasks
    /\ checker = IdleChecker
    /\ consecFail = [p \in Providers |-> 0]
    /\ probeStatus = Nil
    /\ CacheIdle
    /\ StreamIdle
    /\ PoolIdle
    /\ PairIdle
    /\ PureIdle
    /\ UpdIdle

NextPair ==
    \E r \in PairRequests :
        \/ \E style \in Styles : PairStart(r, style)
        \/ PairExhausted(r)
        \/ PairTimeOut(r)
        \/ PairAttempt(r)
        \/ \E outcome \in Outcomes, saved \in BOOLEAN :
              PairResponse(r, outcome, saved)

SpecPair == InitPair /\ [][NextPair]_vars

\* What the picker of request r reads: its candidate set and weights.
ItemsSeen(r) ==
    IF pair.r[r].pc \in {"loop", "awaiting"} THEN ItemsOf(r) ELSE EmptyItems

\* C17: a step in which request r does not move (a 429 decay or a removal
\* by the other request included) changes neither the candidates and
\* weights r's picker reads nor the weights of the binding rows.
C17_ItemsLocal ==
    [][/\ \A r \in PairRequests :
             pair'.r[r] = pair.r[r] => ItemsSeen(r)' = ItemsSeen(r)
       /\ llmproviders' = llmproviders
       /\ cc' = cc]_vars

\* One request has decayed one binding and removed another while the other
\* request still picks among all bindings at their configured weights.
C17_Witness ==
    /\ pair.r[1].pc = "loop" /\ pair.r[2].pc = "loop"
    /\ \E b \in DOMAIN ItemsOf(1) : ItemsOf(1)[b] < llmproviders[b].Weight
    /\ DOMAIN ItemsOf(1) # DOMAIN llmproviders
    /\ DOMAIN ItemsOf(2) = DOMAIN llmproviders
    /\ \A b \in DOMAIN ItemsOf(2) : ItemsOf(2)[b] = llmproviders[b].Weight

-----------------------------------------------------------------------------
(* Cancellation of the inbound request during the retry loop.              *)

InitCancel ==
    /\ now = 0
    /\ config = [Enabled |-> TRUE, MaxErrorCount |-> MaxErrorCountBound,
                 RetryAfterHours |-> MaxRetryAfterHours]
    /\ model \in [MaxRetry : 0..MaxRetryBound, TimeOut : 0..MaxTimeOut]
    /\ providers = [p \in Providers |-> [Type |-> "openai"]]
    /\ llmproviders \in RouterBindings
    /\ health = [p \in Providers |-> NoRecord]
    /\ req = IdleReq
    /\ nreq = 0
    /\ tasks = NoTasks
    /\ checker = IdleChecker
    /\ consecFail = [p \in Providers |-> 0]
    /\ probeStatus = Nil
    /\ CacheIdle
    /\ StreamIdle
    /\ PoolIdle
    /\ PairIdle
    /\ PureIdle
    /\ UpdIdle

NextCancel ==
    \/ PlainRequest
    \/ Cancel
    \/ RetryCancelled
    \/ RetryTimeOut
    \/ RetryExhausted
    \/ Attempt
    \/ Respond

SpecCancel == InitCancel /\ [][NextCancel]_vars

\* No upstream attempt was started since the context was cancelled.
NoAttemptSinceCancel ==
    req.cancelled => req.dispatches = req.cancelledAt.dispatches

\* The request was cancelled and BalanceChatWithExclusions has returned.
CancelledAndDone == req.cancelled /\ req.pc = "done"

\* C18 as claimed: once the context is cancelled no further attempt is
\* started and the request ends with the cancellation error.
C18_EndsWithCancellation ==
    /\ NoAttemptSinceCancel
    /\ CancelledAndDone => req.result = ErrCanceled

\* The attempt in flight when the context was cancelled.
InFlightAtCancel == req.cancelledAt.pc = "awaiting"

\* C18: once the context is cancelled no further attempt is started; the
\* request ends with the cancellation error unless the attempt in flight
\* at the cancellation returned 200, or that attempt was the last one the
\* loop allows (or the loop was already past it), or the retry timer of a
\* zero TimeOut was taken instead.
C18_NoAttemptAfterCancel ==
    /\ NoAttemptSinceCancel
    /\ CancelledAndDone =>
         \/ req.result = ErrCanceled
         \/ /\ InFlightAtCancel
            /\ req.lastStatus = StatusOK
            /\ req.result \in {ResultOK, ErrSaveChatLog}
         \/ /\ req.result = ErrMaxRetry
            /\ \/ req.cancelledAt.retry = model.MaxRetry
               \/ /\ InFlightAtCancel
                  /\ req.cancelledAt.retry = model.MaxRetry - 1
         \/ /\ req.result = ErrRetryTimeOut
            /\ model.TimeOut = 0

\* A request cancelled during its first attempt, with attempts left, has
\* ended with the cancellation error after that attempt failed.
C18_Witness ==
    /\ CancelledAndDone
    /\ InFlightAtCancel
    /\ req.cancelledAt.retry = 0
    /\ req.retry = 1
    /\ req.retry < model.MaxRetry
    /\ req.result = ErrCanceled
    /\ req.dispatches = 1

-----------------------------------------------------------------------------
(* The HTTP handlers: what the client is told when routing fails.          *)

StatusInternalServerError == 500

\* The models table as the lookup sees it: the bindings of each configured
\* model name.  ModelName is configured and bound, "unbound" is configured
\* without bindings, any other name has no row.
Catalog == [n \in {ModelName, "unbound"} |->
               IF n = ModelName THEN DOMAIN llmproviders ELSE {}]

ModelNames == {ModelName, "unbound", "unknown"}

\* A lookup that hands on the database's own error for a missing row.
ProvidersBymodelsNameRawError(name) ==
    IF name \notin DOMAIN Catalog THEN ErrUnexpected
    ELSE IF Catalog[name] = {} THEN ErrNotProviderForModel
    ELSE ""

\* The error of ProvidersBymodelsNameWithCache for a model name, "" when
\* it returns the bindings.
ProvidersBymodelsName(name) ==
    IF name \notin DOMAIN Catalog THEN ErrNotFoundModel
    ELSE IF Catalog[name] = {} THEN ErrNotProviderForModel
    ELSE ""

LookupErrors == {ErrNotFoundModel, ErrNotProviderForModel}

\* BalanceChatWithExclusions returns the lookup's error before it selects
\* any candidate.
LookupFails ==
    /\ req.pc \in {"idle", "done"}
    /\ nreq < MaxRequests
    /\ nreq' = nreq + 1
    /\ \E name \in ModelNames :
          /\ ProvidersBymodelsName(name) # ""
          /\ req' = [IdleReq EXCEPT !.pc = "done", !.name = name,
                                    !.result = ProvidersBymodelsName(name)]
    /\ UNCHANGED <<rest, now, config, model, providers, llmproviders, health,
                   tasks, checker, consecFail>>

\* The status the handler answers for the result of BalanceChat: every
\* error goes to common.InternalServerError.
HandlerStatus(result) ==
    IF result = ResultOK THEN StatusOK ELSE StatusInternalServerError

\* ChatCompletionsHandler and Messages, after BalanceChat has returned.
ChatCompletionsHandler ==
    /\ req.pc = "done"
    /\ req.httpStatus = Nil
    /\ req' = [req EXCEPT !.httpStatus = HandlerStatus(req.result)]
    /\ UNCHANGED <<rest, now, config, model, providers, llmproviders, health,
                   nreq, tasks, checker, consecFail>>

InitHandler ==
    /\ now = 0
    /\ config = [Enabled |-> TRUE, MaxErrorCount |-> MaxErrorCountBound,
                 RetryAfterHours |-> MaxRetryAfterHours]
    /\ model \in [MaxRetry : 0..MaxRetryBound, TimeOut : 0..MaxTimeOut]
    /\ providers \in ProviderTables
    /\ llmproviders \in RouterBindings
    /\ health = [p \in Providers |-> NoRecord]
    /\ req = IdleReq
    /\ nreq = 0
    /\ tasks = NoTasks
    /\ checker = IdleChecker
    /\ consecFail = [p \in Providers |-> 0]
    /\ probeStatus = Nil
    /\ CacheIdle
    /\ StreamIdle
    /\ PoolIdle
    /\ PairIdle
    /\ PureIdle
    /\ UpdIdle

NextHandler ==
    \/ LookupFails
    \/ PlainRequest
    \/ RetryTimeOut
    \/ RetryExhausted
    \/ Attempt
    \/ Respond
    \/ ChatCompletionsHandler

SpecHandler == InitHandler /\ [][NextHandler]_vars

\* The errors of candidate selection and of the retry loop's termination.
UnavailableErrors ==
    {ErrNoProvider, ErrNoStyleProvider, ErrNoCapable, ErrMaxRetry,
     ErrRetryTimeOut}

\* C20: a lookup failure (model not configured, no bindings) is answered
\* with a 4xx status, a selection failure or the end of the retry loop with
\* a 5xx status.
C20_StatusByKind ==
    req.httpStatus # Nil =>
        /\ req.result \in LookupErrors => req.httpStatus \div 100 = 4
        /\ req.result \in UnavailableErrors => req.httpStatus \div 100 = 5

\* The error the lookup owes a model name: none for a bound model.
ExpectedLookupError(name) ==
    IF name \notin DOMAIN Catalog THEN ErrNotFoundModel
    ELSE IF Catalog[name] = {} THEN ErrNotProviderForModel
    ELSE ""

-----------------------------------------------------------------------------
(***************************************************************************)
(* BeforerOpenAI, the preprocessor of OpenAI request bodies.  A JSON       *)
(* object is a function from the names of its members to their values; a   *)
(* scalar is its JSON text.                                                *)
(***************************************************************************)

BodyMembers == {"model", "stream", "stream_options", "temperature"}

OptionMembers == {"include_usage", "include_obfuscation"}

\* The stream_options objects a client may send.
StreamOptions ==
    UNION {[S -> {"true", "false"}] : S \in SUBSET OptionMembers}

\* The request bodies: any subset of the members, an empty or a set model.
RawBodies ==
    {[k \in D |-> CASE k = "model" -> m
                    [] k = "stream" -> st
                    [] k = "stream_options" -> so
                    [] OTHER -> "1"] :
        D \in SUBSET BodyMembers, m \in {"", ModelName},
        st \in {"true", "false"}, so \in StreamOptions}

\* gjson.GetBytes(data, path).String(): "" for a member that is absent.
GetString(data, path) == IF path \in DOMAIN data THEN data[path] ELSE ""

\* gjson.GetBytes(data, path).Bool(): false for a member that is absent.
GetBool(data, path) == path \in DOMAIN data /\ data[path] = "true"

\* sjson.SetBytes(data, path, value): the member is set to the value,
\* whatever it held before.
SetBytes(data, path, value) ==
    [k \in DOMAIN data \cup {path} |-> IF k = path THEN value ELSE data[k]]

\* struct{IncludeUsage bool `json:"include_usage"`}{IncludeUsage: true}
IncludeUsage == [k \in {"include_usage"} |-> "true"]

ErrModelEmpty == "model is empty"

\* BeforerOpenAI: the error and the body handed to the upstream.
BeforerOpenAI(data) ==
    IF GetString(data, "model") = ""
    THEN [err |-> ErrModelEmpty, stream |-> FALSE, raw |-> data]
    ELSE [err |-> "", stream |-> GetBool(data, "stream"),
          raw |-> IF GetBool(data, "stream")
                  THEN SetBytes(data, "stream_options", IncludeUsage)
                  ELSE data]

ApplyBeforerOpenAI ==
    /\ pure.op = "BeforerOpenAI"
    /\ ~pure.done
    /\ pure' = [pure EXCEPT !.out = BeforerOpenAI(pure.arg), !.done = TRUE]
    /\ UNCHANGED <<probeStatus, cc, refreshers, stream, pool, pair, upd, req,
                   routerFrame>>

\* The router and the other components at rest.
AtRest ==
    /\ now = 0
    /\ config = [Enabled |-> TRUE, MaxErrorCount |-> MaxErrorCountBound,
                 RetryAfterHours |-> MaxRetryAfterHours]
    /\ model = [MaxRetry |-> MaxRetryBound, TimeOut |-> MaxTimeOut]
    /\ providers = [p \in Providers |-> [Type |-> "openai"]]
    /\ llmproviders \in RouterBindings
    /\ health = [p \in Providers |-> NoRecord]
    /\ req = IdleReq
    /\ nreq = 0
    /\ tasks = NoTasks
    /\ checker = IdleChecker
    /\ consecFail = [p \in Providers |-> 0]
    /\ probeStatus = Nil
    /\ CacheIdle
    /\ StreamIdle
    /\ PoolIdle
    /\ PairIdle
    /\ UpdIdle

InitBeforer ==
    /\ AtRest
    /\ \E data \in RawBodies :
          pure = [NoPure EXCEPT !.op = "BeforerOpenAI", !.arg = data]

NextBeforer == ApplyBeforerOpenAI

SpecBeforer == InitBeforer /\ [][NextBeforer]_vars

\* C22: parsing the body BeforerOpenAI returns for a streaming request
\* yields stream_options.include_usage = true and every other member of the
\* original body, the other members of a client's stream_options included,
\* with its original value; a body that is not streaming is returned as it
\* was.
C22_RewritePreserves ==
    (pure.op = "BeforerOpenAI" /\ pure.done /\ pure.out.err = "")
      => LET data == pure.arg
             raw  == pure.out.raw
         IN  IF GetBool(data, "stream")
             THEN /\ DOMAIN raw = DOMAIN data \cup {"stream_options"}
                  /\ raw["stream_options"]["include_usage"] = "true"
                  /\ \A k \in DOMAIN data \ {"stream_options"} :
                        raw[k] = data[k]
                  /\ "stream_options" \in DOMAIN data =>
                       \A o \in DOMAIN data["stream_options"]
                                  \ {"include_usage"} :
                          /\ o \in DOMAIN raw["stream_options"]
                          /\ raw["stream_options"][o]
                               = data["stream_options"][o]
             ELSE raw = data

-----------------------------------------------------------------------------
(* WeightedRandom on its own, for every small weight map.                  *)

\* The keys of the maps and the size of the negative weights tried.
MaxKeys == 3
MaxNegWeight == 1

WeightMaps ==
    UNION {[S -> (0 - MaxNegWeight)..MaxWeight] : S \in SUBSET (1..MaxKeys)}

ApplyWeightedRandom ==
    /\ pure.op = "WeightedRandom"
    /\ ~pure.done
    /\ \E res \in WeightedRandom(pure.arg) :
          pure' = [pure EXCEPT !.out = res, !.done = TRUE]
    /\ UNCHANGED <<probeStatus, cc, refreshers, stream, pool, pair, upd, req,
                   routerFrame>>

InitPicker ==
    /\ AtRest
    /\ \E items \in WeightMaps :
          pure = [NoPure EXCEPT !.op = "WeightedRandom", !.arg = items]

NextPicker == ApplyWeightedRandom

SpecPicker == InitPicker /\ [][NextPicker]_vars

\* C23: WeightedRandom fails with the empty-items error iff the map is
\* empty, with the non-positive-total error iff the map is not empty and
\* its weights sum to at most 0, and a map with one entry of positive
\* weight yields that entry for every draw.
C23_PickerErrors ==
    (pure.op = "WeightedRandom" /\ pure.done)
      => LET items == pure.arg
             res   == pure.out
         IN  /\ res.err = ErrNoItems <=> DOMAIN items = {}
             /\ res.err = ErrTotalWeight
                  <=> (DOMAIN items # {} /\ TotalWeight(items) <= 0)
             /\ \A k \in DOMAIN items :
                   (DOMAIN items = {k} /\ items[k] > 0) => res = Picked(k)

\* A single entry of the largest weight has been picked.
C23_Witness ==
    /\ pure.op = "WeightedRandom" /\ pure.done
    /\ DOMAIN pure.arg = {1}
    /\ pure.arg[1] = MaxWeight
    /\ pure.out = Picked(1)

\* The weights of a map are all at least 0 and their sum is positive.
NonNegative(items) ==
    /\ DOMAIN items # {}
    /\ \A k \in DOMAIN items : items[k] >= 0
    /\ TotalWeight(items) > 0

-----------------------------------------------------------------------------
(* The 429 decay on its own, for every small items map.                    *)

\* The largest weight decayed.
MaxPrev == 6

\* An items map of positive weights and the binding that answered 429.
DecayArgs ==
    UNION {[items : [S -> 1..MaxPrev], item : S] :
              S \in SUBSET (1..MaxKeys) \ {{}}}

ApplyDecay ==
    /\ pure.op = "Decay"
    /\ ~pure.done
    /\ pure' = [pure EXCEPT !.out = Decay(pure.arg.items, pure.arg.item),
                            !.done = TRUE]
    /\ UNCHANGED <<probeStatus, cc, refreshers, stream, pool, pair, upd, req,
                   routerFrame>>

InitDecay ==
    /\ AtRest
    /\ \E a \in DecayArgs : pure = [NoPure EXCEPT !.op = "Decay", !.arg = a]

NextDecay == ApplyDecay

SpecDecay == InitDecay /\ [][NextDecay]_vars

\* The decay has been applied.
Decayed == pure.op = "Decay" /\ pure.done

\* C26 as claimed: after a 429 the binding's weight is the floor of two
\* thirds of its weight before.
C26_DecayIsFloor ==
    Decayed => pure.out[pure.arg.item]
                 = (pure.arg.items[pure.arg.item] * 2) \div 3

\* C26: after a 429 the binding's weight is its weight before less the
\* floor of a third of it, that is two thirds of it rounded up; the other
\* entries of items are as before.
C26_DecayIsCeiling ==
    Decayed =>
        LET prev  == pure.arg.items[pure.arg.item]
            after == pure.out[pure.arg.item]
        IN  /\ after = prev - (prev \div 3)
            /\ 3 * after >= 2 * prev
            /\ 3 * after < 2 * prev + 3
            /\ DOMAIN pure.out = DOMAIN pure.arg.items
            /\ \A k \in DOMAIN pure.out \ {pure.arg.item} :
                  pure.out[k] = pure.arg.items[k]

\* A weight that is no multiple of 3 has been decayed.
C26_Witness ==
    /\ Decayed
    /\ pure.arg.items[pure.arg.item] = 5
    /\ pure.out[pure.arg.item] = 4

-----------------------------------------------------------------------------
(* Success events on the health registry.                                  *)

\* A step that records a success on the existing row of provider p, by the
\* router's update or by the checker: only those add one to
\* ConsecutiveSuccesses.
SuccessOnRow(p) ==
    /\ health[p].exists
    /\ health'[p].ConsecutiveSuccesses = health[p].ConsecutiveSuccesses + 1

\* C25: a success event on an existing row sets ErrorCount to 0, adds one
\* to ConsecutiveSuccesses and sets LastValidatedAt to now, whether the row
\* was healthy or not; a row that was unhealthy becomes healthy with
\* NextRetryAt cleared.  (LastSuccessAt and LastError are not part of the
\* rows modelled here.)
C25_SuccessResetsErrors ==
    [][\A p \in Providers :
          SuccessOnRow(p) =>
              /\ health'[p].ErrorCount = 0
              /\ health'[p].LastValidatedAt = now
              /\ health'[p].IsHealthy
              /\ ~health[p].IsHealthy => health'[p].NextRetryAt = Nil]_vars

-----------------------------------------------------------------------------
(***************************************************************************)
(* Concurrent health updates.  updateProviderHealthOnError and -OnSuccess  *)
(* run in goroutines of their own and checkProvider in the checker's;      *)
(* each reads the provider's row with First and writes it back later with  *)
(* Create or Save.  ProviderID carries a unique index, so a Create for a   *)
(* provider that has a row by then fails.                                  *)
(***************************************************************************)

UpdateKinds == {"error", "success", "checkOK", "checkFail"}

CheckerKinds == {"checkOK", "checkFail"}

\* One update applied to row v with nothing in between.
ApplyUpdate(kind, v, cfg, t) ==
    CASE kind = "error" -> updateProviderHealthOnError(v, cfg, t)
      [] kind = "success" -> updateProviderHealthOnSuccess(v, t)
      [] OTHER ->
           LET v0 == IF v.exists THEN v ELSE CheckerCreate(t)
           IN  IF CheckerSkips(v0, t) THEN v0
               ELSE CheckerUpdate(v0, cfg, kind = "checkOK", t)

UpdFrame ==
    UNCHANGED <<probeStatus, cc, refreshers, stream, pool, pair, pure, req,
                now, config, model, providers, llmproviders, nreq, tasks,
                checker, consecFail>>

\* The read of an update: First(&validation).  checkProvider creates a
\* missing row at once and returns without a write when the provider is
\* to be skipped.
UpdRead(u, kind, p) ==
    /\ upd.u[u].pc = "idle"
    /\ LET row == health[p]
           v   == IF kind \in CheckerKinds /\ ~row.exists
                  THEN CheckerCreate(now) ELSE row
           skip == kind \in CheckerKinds /\ CheckerSkips(v, now)
       IN  /\ health' = [health EXCEPT ![p] = v]
           /\ upd' = [upd EXCEPT !.u[u] =
                        [pc |-> IF skip THEN "done" ELSE "read",
                         kind |-> kind, provider |-> p, v |-> v]]
    /\ UpdFrame

\* The write of an update: Create for a row that was missing at the read
\* (it fails when the row exists by now), Save of the whole row otherwise.
UpdWrite(u) ==
    /\ upd.u[u].pc = "read"
    /\ LET kind == upd.u[u].kind
           p    == upd.u[u].provider
           v    == upd.u[u].v
       IN  health' = [health EXCEPT ![p] =
                        IF kind \in CheckerKinds
                        THEN CheckerUpdate(v, config, kind = "checkOK", now)
                        ELSE IF ~v.exists /\ health[p].exists THEN health[p]
                        ELSE ApplyUpdate(kind, v, config, now)]
    /\ upd' = [upd EXCEPT !.u[u].pc = "done"]
    /\ UpdFrame

\* The rows the updates start from: none, or the row one earlier failure
\* or one earlier success left.
BaseRows == {NoRecord, OnErrorCreate(0), OnSuccessCreate(0)}

InitRace ==
    /\ now = 0
    /\ config \in [Enabled : {TRUE}, MaxErrorCount : 1..MaxErrorCountBound,
                   RetryAfterHours : 0..MaxRetryAfterHours]
    /\ model = [MaxRetry |-> MaxRetryBound, TimeOut |-> MaxTimeOut]
    /\ providers = [p \in Providers |-> [Type |-> "openai"]]
    /\ llmproviders \in RouterBindings
    /\ health \in [Providers -> BaseRows]
    /\ req = IdleReq
    /\ nreq = 0
    /\ tasks = NoTasks
    /\ checker = IdleChecker
    /\ consecFail = [p \in Providers |-> 0]
    /\ probeStatus = Nil
    /\ CacheIdle
    /\ StreamIdle
    /\ PoolIdle
    /\ PairIdle
    /\ PureIdle
    /\ upd = [NoUpd EXCEPT !.base = health]

NextRace ==
    \E u \in Updaters :
        \/ \E kind \in UpdateKinds, p \in Providers : UpdRead(u, kind, p)
        \/ UpdWrite(u)

SpecRace == InitRace /\ [][NextRace]_vars

\* The row of provider p after the updates of `order` one after the other.
RECURSIVE Serial(_, _, _)
Serial(order, p, v) ==
    IF order = <<>> THEN v
    ELSE LET x == upd.u[Head(order)]
         IN  Serial(Tail(order), p,
                    IF x.provider = p
                    THEN ApplyUpdate(x.kind, v, config, now) ELSE v)

AllUpdatesDone == \A u \in Updaters : upd.u[u].pc = "done"

\* C24: when all the concurrent updates have finished, the row of every
\* provider is the row some sequential order of those updates leaves.
C24_Serializable ==
    AllUpdatesDone =>
        \A p \in Providers :
            \E order \in Orders(Updaters) :
                health[p] = Serial(order, p, upd.base[p])

-----------------------------------------------------------------------------
(* The double check of refreshCache.                                       *)

\* The refreshes that ran the queries.
Reloads == {g \in Refreshers : refreshers[g].queried}

\* C27 as claimed: of the refreshes started by readers of one expiry, at
\* most one runs the queries.
C27_OneReloadPerExpiry ==
    \A g, h \in Reloads :
        refreshers[g].seen = refreshers[h].seen => g = h

\* The double check of refresh g finds the snapshot fresh in this step.
FoundFresh(g) ==
    /\ refreshers[g].pc = "check"
    /\ refreshers'[g].pc # "check"
    /\ ~isCacheExpired(cc, now)

\* C27: a refresh that passes the gate when the snapshot is fresh ends
\* without a query and leaves the maps and lastRefreshTime as they were; a
\* refresh runs the queries only while the snapshot is expired, a reload
\* that succeeds makes it fresh, and no two reloads that looked at the same
\* snapshot both succeed.
C27_DoubleCheck ==
    [][/\ \A g \in Refreshers :
             /\ FoundFresh(g) =>
                  /\ refreshers'[g].result = "fresh"
                  /\ ~refreshers'[g].queried
                  /\ cc'.modelCache = cc.modelCache
                  /\ cc'.providerCache = cc.providerCache
                  /\ cc'.modelProviderCache = cc.modelProviderCache
                  /\ cc'.lastRefreshTime = cc.lastRefreshTime
             /\ refreshers'[g].pc = "body" => isCacheExpired(cc', now')
             /\ (refreshers[g].pc = "body" /\ refreshers'[g].result = "ok")
                  => ~isCacheExpired(cc', now')
       /\ \A g, h \in Refreshers :
             (/\ refreshers'[g].result = "ok"
              /\ refreshers'[h].result = "ok"
              /\ refreshers'[g].checked = refreshers'[h].checked) => g = h
      ]_vars

\* One refresh has reloaded the snapshot and a later one, started by a
\* reader of the same expiry, found it fresh at its double check.
C27_Witness ==
    \E g, h \in Refreshers :
        /\ refreshers[g].result = "ok"
        /\ refreshers[h].result = "fresh"
        /\ refreshers[g].seen = refreshers[h].seen
        /\ ~refreshers[h].queried

-----------------------------------------------------------------------------
(* The retryErrLog channel.                                                *)

\* C30: the channel never holds more than maxRetry error logs, and while
\* an attempt is in flight a slot is free, so the send of its error log
\* completes at once whatever the drainer has done.
C30_SendNeverBlocks ==
    /\ Len(req.retryErrLog) <= RetryErrLogCap(model)
    /\ req.pc = "awaiting" => SendReady(req.retryErrLog, model)

\* Every attempt of the request failed and the drainer has taken nothing:
\* the channel is full.
C30_Witness ==
    /\ model.MaxRetry > 0
    /\ req.retry = model.MaxRetry
    /\ Len(req.retryErrLog) = model.MaxRetry
    /\ req.chatLogs = <<>>

-----------------------------------------------------------------------------
(* Termination of the goroutines of one request.  The handler, the          *)
(* telemetry consumer and the drainer are goroutines of their own, and a    *)
(* runnable goroutine is run; the upstream call, the reads of the upstream  *)
(* body, the writes to the client and the statements on the database        *)
(* return.                                                                  *)

SpecStreamFair ==
    /\ SpecStream
    /\ WF_vars(RetryExhausted)
    /\ WF_vars(Attempt)
    /\ WF_vars(Respond)
    /\ WF_vars(SaveRetryLogs)
    /\ WF_vars(StartStream)
    /\ WF_vars(CopyRead)
    /\ WF_vars(TeeWrite)
    /\ WF_vars(CopyWrite)
    /\ WF_vars(ScanEnd)
    /\ WF_vars(Processer)
    /\ WF_vars(HandlerReturn)

\* The ChatLog the successful attempt created, by its row.
SuccessRows == {i \in 1..Len(req.chatLogs) : req.chatLogs[i].Retry = req.retry}

\* C28: once io.Copy has returned, whatever ended it, the write end of the
\* pipe is closed; the consumer runs Updates at most once, has run it
\* exactly once when it is done, and is started only after the ChatLog was
\* created; and a consumer that was started terminates.
C28_ConsumerTerminates ==
    /\ [](/\ stream.copier \in {"returned", "answered"} => stream.pwClosed
          /\ stream.updates <= 1
          /\ stream.consumer = "closed" <=> stream.updates = 1)
    /\ [][(stream.consumer = "idle" /\ stream'.consumer # "idle")
            => SuccessRows # {}]_vars
    /\ (stream.consumer = "scan") ~> (stream.consumer = "closed")

\* The client went away in the middle of the body and the consumer has
\* ended with its one update.
C28_Witness ==
    /\ stream.clientGone
    /\ stream.consumer = "closed"
    /\ stream.updates = 1
    /\ stream.pwError

\* The drainer's range loop has ended: the channel is closed and empty.
DrainerDone == Returned /\ req.retryErrLog = <<>>

\* The error ChatLogs the drainer has stored.
Persisted == {i \in 1..Len(req.chatLogs) : req.chatLogs[i].Retry < req.retry}

-----------------------------------------------------------------------------
(* The counters of a host pool.                                            *)

\* C37: activeConns of a host pool equals the number of clients in its
\* in-use set and lies between 0 and maxConns, whatever getClient,
\* returnClient and the sweeps did before.
C37_ActiveCountsInUse ==
    pool.exists =>
        /\ pool.activeConns = Cardinality(pool.inUse)
        /\ 0 <= pool.activeConns
        /\ pool.activeConns <= pool.maxConns

-----------------------------------------------------------------------------
(* Release and reuse of the clients of a host pool.                        *)

\* The client a GetClient step hands out, as a set: empty when the step is
\* no GetClient or GetClient returned an error.
HandedOut == pool'.held \ pool.held

\* The client a ReturnClient step gives back, as a set.
GivenBack == pool.held \ pool'.held

\* A client of the pool is older than the maximum connection lifetime.
Stale(hp, client) ==
    /\ client \in DOMAIN hp.connInfo
    /\ hp.clock - hp.connInfo[client].CreatedAt > MaxConnLifetime

\* C31 as claimed: the GetClient that follows a release returns the client
\* that was released, the last one of the idle queue.
C31_NextGetReturnsReleased ==
    [][\A client \in HandedOut :
          pool.idleConns # <<>>
             => client = pool.idleConns[Len(pool.idleConns)]]_vars

\* C31: a released client that is in use, healthy and within its lifetime
\* is appended to the idle queue when the queue is not full and discarded
\* when it is full; GetClient hands out the head of a non-empty idle queue
\* and creates no client then; the idle queue never holds more than
\* maxIdleConns clients.
C31_ReleaseAndReuse ==
    /\ [](pool.exists => Len(pool.idleConns) <= pool.maxIdleConns)
    /\ [][/\ \A client \in GivenBack :
                (client \in pool.inUse /\ ~Stale(pool, client)) =>
                   IF Len(pool.idleConns) < pool.maxIdleConns
                   THEN pool'.idleConns = Append(pool.idleConns, client)
                   ELSE /\ pool'.idleConns = pool.idleConns
                        /\ client \notin DOMAIN pool'.connInfo
          /\ \A client \in HandedOut :
                pool.idleConns # <<>> =>
                   /\ client = Head(pool.idleConns)
                   /\ pool'.idleConns = Tail(pool.idleConns)
                   /\ pool'.created = pool.created
         ]_vars

\* Clients 1 and 2 were released in that order and the next GetClient
\* handed out client 1, the head of the queue; client 2 is still idle.
C31_Witness ==
    /\ pool.created = 2
    /\ pool.got = 1
    /\ pool.held = {1}
    /\ pool.idleConns = <<2>>

\* C32: the client GetClient hands out is not older than the maximum
\* connection lifetime.
C32_NoStaleClient ==
    [][\A client \in HandedOut : ~Stale(pool', client)]_vars

\* C33: the client GetClient returned has the response-header timeout its
\* caller asked for.
C33_TimeoutOfCaller ==
    pool.got # 0 => pool.transport[pool.got] = pool.asked

-----------------------------------------------------------------------------
(* The worker of the health check service: Start, run and Stop.            *)

\* checkAllProviders as run calls it: a scan begins, unless the
\* configuration is disabled.
startScan(ch) ==
    IF config.Enabled
    THEN [ch EXCEPT !.pc = "scan", !.idx = 1, !.probed = FALSE,
                    !.scans = ch.scans + 1]
    ELSE [ch EXCEPT !.scans = ch.scans + 1]

\* Start: the service is marked running and the worker launched.
Start ==
    /\ ~checker.running
    /\ checker.worker = "none"
    /\ checker' = [checker EXCEPT !.running = TRUE, !.worker = "init"]
    /\ UNCHANGED <<rest, now, config, model, providers, llmproviders, health,
                   req, nreq, tasks, consecFail>>

\* run: the check made at once, before the ticker is created.
RunFirstScan ==
    /\ checker.worker = "init"
    /\ checker' = [startScan(checker) EXCEPT !.worker = "loop"]
    /\ UNCHANGED <<rest, now, config, model, providers, llmproviders, health,
                   req, nreq, tasks, consecFail>>

\* The ticker of run fires: its channel holds one tick.
TickerFires ==
    /\ checker.worker = "loop"
    /\ ~checker.ticker
    /\ checker.ticks < MaxTicks
    /\ checker' = [checker EXCEPT !.ticker = TRUE, !.ticks = @ + 1]
    /\ UNCHANGED <<rest, now, config, model, providers, llmproviders, health,
                   req, nreq, tasks, consecFail>>

\* run's select takes the case of the stop channel: the worker returns.
SelectStop ==
    /\ checker.worker = "loop"
    /\ checker.pc = "sleep"
    /\ checker.stopped
    /\ checker' = [checker EXCEPT !.worker = "returned"]
    /\ UNCHANGED <<rest, now, config, model, providers, llmproviders, health,
                   req, nreq, tasks, consecFail>>

\* run's select takes the case of the ticker: the next scan.  With both
\* channels ready the select takes either case.
SelectTick ==
    /\ checker.worker = "loop"
    /\ checker.pc = "sleep"
    /\ checker.ticker
    /\ checker' = [startScan(checker) EXCEPT !.ticker = FALSE]
    /\ UNCHANGED <<rest, now, config, model, providers, llmproviders, health,
                   req, nreq, tasks, consecFail>>

\* Stop: a running service closes the stop channel; otherwise nothing.
Stop ==
    /\ checker.stops < MaxStops
    /\ checker' = IF checker.running
                  THEN [checker EXCEPT !.stopped = TRUE, !.running = FALSE,
                                       !.stops = @ + 1]
                  ELSE [checker EXCEPT !.stops = @ + 1]
    /\ UNCHANGED <<rest, now, config, model, providers, llmproviders, health,
                   req, nreq, tasks, consecFail>>

InitStop ==
    /\ AtRest
    /\ PureIdle

NextStop ==
    \/ Start
    \/ RunFirstScan
    \/ TickerFires
    \/ SelectStop
    \/ SelectTick
    \/ checkProvider
    \/ Stop

SpecStop == InitStop /\ [][NextStop]_vars

\* C35: once Stop has closed the stop channel the worker begins no scan,
\* and a Stop of a service that is not running changes nothing.
C35_NoScanAfterStop ==
    [][/\ checker.stopped => checker'.scans = checker.scans
       /\ (checker'.stops # checker.stops /\ ~checker.running)
            => checker' = [checker EXCEPT !.stops = checker'.stops]
      ]_vars

-----------------------------------------------------------------------------
(* Recovery by the checker alone.  Every provider starts unhealthy, every  *)
(* probe is answered with a reachable status and the router is idle.  The  *)
(* clock counts the intervals of the worker's ticker.                      *)

UnhealthyRows ==
    {[NoRecord EXCEPT !.exists = TRUE, !.IsHealthy = FALSE,
                      !.ErrorCount = MaxErrorCountBound,
                      !.NextRetryAt = t] : t \in {Nil} \cup (0..MaxTime)}

\* An interval of the ticker passes.
IntervalPasses ==
    /\ checker.worker = "loop"
    /\ now < MaxTime
    /\ now' = now + 1
    /\ checker' = [checker EXCEPT !.ticker = TRUE]
    /\ UNCHANGED <<rest, config, model, providers, llmproviders, health,
                   req, nreq, tasks, consecFail>>

\* checkProvider with an upstream that answers the probe.
ReachableProbe ==
    \E status \in {x \in ProbeOutcomes : Reachable(x)} :
        checkProviderOn(status)

InitRecover ==
    /\ now = 0
    /\ config \in [Enabled : {TRUE},
                   MaxErrorCount : 1..MaxErrorCountBound,
                   RetryAfterHours : 0..MaxRetryAfterHours]
    /\ model = [MaxRetry |-> MaxRetryBound, TimeOut |-> MaxTimeOut]
    /\ providers = [p \in Providers |-> [Type |-> "openai"]]
    /\ llmproviders \in RouterBindings
    /\ health \in [Providers -> UnhealthyRows]
    /\ req = IdleReq
    /\ nreq = 0
    /\ tasks = NoTasks
    /\ checker = IdleChecker
    /\ consecFail = [p \in Providers |-> 0]
    /\ probeStatus = Nil
    /\ CacheIdle
    /\ StreamIdle
    /\ PoolIdle
    /\ PairIdle
    /\ PureIdle
    /\ UpdIdle

NextRecover ==
    \/ Start
    \/ RunFirstScan
    \/ IntervalPasses
    \/ SelectTick
    \/ ReachableProbe

\* The service is started, the worker runs, the ticker goes on firing and
\* every probe returns.
SpecRecover ==
    /\ InitRecover
    /\ [][NextRecover]_vars
    /\ WF_vars(Start)
    /\ WF_vars(RunFirstScan)
    /\ WF_vars(IntervalPasses)
    /\ WF_vars(SelectTick)
    /\ WF_vars(ReachableProbe)

\* The row of p as a recovery leaves it.
Recovered(p) ==
    /\ health[p].IsHealthy
    /\ health[p].ErrorCount = 0
    /\ health[p].NextRetryAt = Nil

\* C34: an unhealthy provider whose upstream answers the probes is
\* eventually marked healthy again by the checker, its error count and
\* its retry time cleared, while the router serves no request.
C34_Recovers ==
    /\ [](req = IdleReq /\ tasks = NoTasks)
    /\ \A p \in Providers : (~health[p].IsHealthy) ~> Recovered(p)

\* Every provider has recovered, the last of them in a scan the ticker
\* started after the retry time had come.
C34_Witness ==
    /\ \A p \in Providers : Recovered(p) /\ health[p].exists
    /\ checker.scans >= 2
    /\ now > 0

-----------------------------------------------------------------------------
(* Requests that exclude providers.                                        *)

\* BalanceChatWithExclusions called with a list of provider ids to leave
\* out.
ExcludingRequest ==
    \E style \in Styles, excluded \in SUBSET Providers :
        BalanceChatWithExclusions(style, NoFacts, excluded)

NextExclusions ==
    \/ ExcludingRequest
    \/ RetryExhausted
    \/ Attempt
    \/ Respond
    \/ RunHealthTask

SpecExclusions == Init /\ [][NextExclusions]_vars

\* C36: the provider of the attempt in flight is not in the request's
\* list of excluded providers.
C36_ExcludedNeverDispatched ==
    req.pc = "awaiting" => ProviderOf(req.cur) \notin req.excluded

-----------------------------------------------------------------------------
(* One call of ProvidersBymodelsNameWithCache while the configuration is   *)
(* edited and the cache refreshed or cleared.  The cache starts as its     *)
(* first refresh left it.                                                  *)

\* An administrator saves a change of the model and of its bindings.
EditConfig ==
    /\ model.MaxRetry < MaxRetryBound + MaxEdits
    /\ model' = [model EXCEPT !.MaxRetry = @ + 1]
    /\ llmproviders' = [b \in DOMAIN llmproviders |->
                           [llmproviders[b] EXCEPT !.Weight = @ + 1]]
    /\ req' = [req EXCEPT !.lookup.states =
                             @ \cup {<<model', llmproviders'>>}]
    /\ UNCHANGED <<rest, now, config, providers, health, nreq, tasks,
                   checker, consecFail>>

\* ClearCache: the three maps are replaced by empty ones and the refresh
\* time set to now.
ClearCache ==
    /\ cc' = [cc EXCEPT !.modelCache = <<>>, !.providerCache = <<>>,
                        !.modelProviderCache = <<>>,
                        !.lastRefreshTime = now]
    /\ UNCHANGED <<probeStatus, refreshers, stream, pool, pair, pure, upd,
                   req, routerFrame>>

\* The first half of ProvidersBymodelsNameWithCache: GetModel.
LookupModel(dbOK) ==
    /\ req.lookup.pc = "idle"
    /\ CanSpawn(isCacheExpired(cc, now))
    /\ refreshers' = Spawn(refreshers, isCacheExpired(cc, now))
    /\ LET hit == ModelName \in DOMAIN cc.modelCache
       IN  /\ cc' = IF hit \/ ~dbOK THEN cc
                    ELSE [cc EXCEPT !.modelCache = ModelCacheFull]
           /\ req' = IF hit
                     THEN [req EXCEPT !.lookup.pc = "model",
                                      !.lookup.Model = cc.modelCache[ModelName]]
                     ELSE IF dbOK
                     THEN [req EXCEPT !.lookup.pc = "model",
                                      !.lookup.Model = model]
                     ELSE [req EXCEPT !.lookup.pc = "done",
                                      !.lookup.err = "db"]
    /\ UNCHANGED <<probeStatus, stream, pool, pair, pure, upd, routerFrame>>

\* The second half: GetModelProviders, and the result.
LookupProviders(dbOK) ==
    /\ req.lookup.pc = "model"
    /\ CanSpawn(isCacheExpired(cc, now))
    /\ refreshers' = Spawn(refreshers, isCacheExpired(cc, now))
    /\ LET hit == ModelName \in DOMAIN cc.modelProviderCache
       IN  /\ cc' = IF hit \/ ~dbOK THEN cc
                    ELSE [cc EXCEPT !.modelProviderCache =
                                        ModelProviderCacheFull]
           /\ req' = IF hit
                     THEN [req EXCEPT
                             !.lookup.pc = "done",
                             !.lookup.Providers =
                                 cc.modelProviderCache[ModelName]]
                     ELSE IF dbOK
                     THEN [req EXCEPT !.lookup.pc = "done",
                                      !.lookup.Providers = llmproviders]
                     ELSE [req EXCEPT !.lookup.pc = "done",
                                      !.lookup.err = "db"]
    /\ UNCHANGED <<probeStatus, stream, pool, pair, pure, upd, routerFrame>>

ProvidersBymodelsNameWithCache ==
    \E dbOK \in BOOLEAN : LookupModel(dbOK) \/ LookupProviders(dbOK)

InitLookup ==
    /\ now = 0
    /\ config = [Enabled |-> TRUE, MaxErrorCount |-> MaxErrorCountBound,
                 RetryAfterHours |-> MaxRetryAfterHours]
    /\ model = [MaxRetry |-> MaxRetryBound, TimeOut |-> MaxTimeOut]
    /\ providers = [p \in Providers |-> [Type |-> "openai"]]
    /\ llmproviders \in RouterBindings
    /\ health = [p \in Providers |-> NoRecord]
    /\ req = [IdleReq EXCEPT !.lookup.states = {<<model, llmproviders>>}]
    /\ nreq = 0
    /\ tasks = NoTasks
    /\ checker = IdleChecker
    /\ consecFail = [p \in Providers |-> 0]
    /\ probeStatus = Nil
    /\ \E ttl \in 0..MaxTTL : cc = Rebuild(NewConfigCache(ttl, 0), 0, 0)
    /\ refreshers = [g \in Refreshers |-> NoRefresher]
    /\ StreamIdle
    /\ PoolIdle
    /\ PairIdle
    /\ PureIdle
    /\ UpdIdle

NextLookup ==
    \/ ProvidersBymodelsNameWithCache
    \/ EditConfig
    \/ ClearCache
    \/ refreshCache
    \/ Tick

SpecLookup == InitLookup /\ [][NextLookup]_vars

\* C38: the Model and the binding list a lookup returns are those of one
\* state of the stored configuration.
C38_SameSnapshot ==
    (req.lookup.pc = "done" /\ req.lookup.err = "")
        => <<req.lookup.Model, req.lookup.Providers>> \in req.lookup.states

-----------------------------------------------------------------------------
(* The daily usage statistics of a provider.                               *)

\* UpdateProviderUsageStats: the row of (provider, today) is created or
\* updated from the ChatLog the caller passed.
UpdateProviderUsageStats(stats, log) ==
    LET success == log.Status = "success"
    IN  [exists |-> TRUE,
         TotalRequests |-> stats.TotalRequests + 1,
         SuccessRequests |-> stats.SuccessRequests
                               + (IF success THEN 1 ELSE 0),
         FailedRequests |-> stats.FailedRequests
                              + (IF success THEN 0 ELSE 1),
         TotalTokens |-> stats.TotalTokens
                           + (IF success THEN log.TotalTokens ELSE 0)]

\* The goroutine `go UpdateProviderUsageStats(...)` of the success path
\* runs, with the ChatLog as it was when the goroutine was launched.
RunUsageStats ==
    /\ req.usageTasks # <<>>
    /\ req' = [req EXCEPT
                 !.usage = UpdateProviderUsageStats(req.usage,
                                                    Head(req.usageTasks)),
                 !.usageTasks = Tail(req.usageTasks)]
    /\ UNCHANGED <<rest, routerFrame>>

NextUsage ==
    \/ PlainRequest
    \/ RetryExhausted
    \/ Attempt
    \/ Respond
    \/ SaveRetryLogs
    \/ StartStream
    \/ CopyRead
    \/ TeeWrite
    \/ CopyWrite
    \/ ScanEnd
    \/ Processer
    \/ HandlerReturn
    \/ RunUsageStats

SpecUsage == InitStream /\ [][NextUsage]_vars

\* Every goroutine of the request has ended.
AllFinished ==
    /\ DrainerDone
    /\ req.usageTasks = <<>>
    /\ req.result = ResultOK => stream.consumer = "closed"

\* The token usage recorded in the success ChatLogs.
RecordedTokens ==
    SumOver([i \in 1..Len(req.chatLogs) |-> req.chatLogs[i].TotalTokens],
            LogsWith("success"))

\* C39: when the requests have finished, the token counter of the usage
\* row equals the sum of the usage recorded in the success ChatLogs and
\* successRequests their number.
C39_UsageMatchesLogs ==
    AllFinished =>
        /\ req.usage.TotalTokens = RecordedTokens
        /\ req.usage.SuccessRequests = Cardinality(LogsWith("success"))
====
